---- MODULE Spec2Model ----
(***************************************************************************)
(* Model of the matching core of polymarket-backend:                       *)
(*   src/src/services/matching/orderbook.rs  (Orderbook)                   *)
(*   src/src/services/matching/types.rs      (PriceLevel, OrderEntry, ...) *)
(*                                                                         *)
(* A rust_decimal::Decimal is modelled as a record [m, s]: the integer     *)
(* mantissa m and the scale s, denoting m / 10^s.  Two Decimals are equal  *)
(* as numbers when DecEq holds; their text (to_string) differs with the    *)
(* scale.                                                                  *)
(***************************************************************************)
EXTENDS Integers, Sequences, FiniteSets, TLC

VARIABLES
    bids,              \* Orderbook.bids: price level -> queue of OrderEntry
    asks,              \* Orderbook.asks
    order_index,       \* Orderbook.order_index: id -> <<side, price level>>
    order_count,       \* Orderbook.order_count
    last_trade_price,  \* Orderbook.last_trade_price (raw, 0 when unset)
    next_id,           \* the next fresh order id (Uuid::new_v4 of the callers)
    cancelled,         \* the ids for which a cancel_order call returned the entry
    last,              \* the last completed call: its arguments, the book before it, its result
    th,                \* concurrent callers: per thread, the call in progress and its locals
    lock,              \* per side, the thread holding the side's write lock (0: free)
    book_taker,        \* per id, the thread that took the entry out of its queue (0: none)
    idx_taker,         \* per id, the thread whose order_index.remove(id) found the id (0: none)
    ecall,             \* the last completed call of the engine: arguments, book before, result
    trade_tx,          \* the TradeEvents sent on the trade broadcast channel, oldest first
    book_tx,           \* the number of OrderbookUpdates sent on the orderbook channel
    worker,            \* the persistence worker: its receiver's position and what it did
    db,                \* orders table: per order id, the recorded status
    req,               \* the HTTP handlers' requests in flight, each with its position
    exec,              \* the fills in the order in which match_order applied them to the book
    engine_filled,     \* the ids of the orders the engine has filled completely
    conv,              \* PriceLevel conversions at full width: two prices, their levels, the prices decoded
    views,             \* per thread, its snapshot call: the rows read and the tops the book had meanwhile
    balances,          \* balances table: the row of the user's collateral token
    limiter,           \* RateLimiter.entries, the clock, and the calls answered Ok
    flow               \* the HTTP requests accepted and the statements that gave Err, counted

seqvars == <<cancelled, last>>

concvars == <<th, lock, book_taker, idx_taker, views>>

engvars == <<ecall, trade_tx, book_tx, worker, db, req, exec, engine_filled, conv,
            balances, limiter, flow>>

vars == <<bids, asks, order_index, order_count, last_trade_price, next_id, cancelled, last,
          th, lock, book_taker, idx_taker, views,
          ecall, trade_tx, book_tx, worker, db, req, exec, engine_filled, conv,
          balances, limiter, flow>>

----------------------------------------------------------------------------
(* Bounds of the model *)

MaxOrders == 2      \* number of order ids ever handed to add_order
MaxSubmits == 3     \* number of orders ever submitted to the engine
ChanCap == 1        \* capacity of the trade broadcast channel
MaxDepth  == 2      \* largest depth passed to snapshot
NThreads  == 2      \* number of concurrent callers of one Orderbook
MaxRequests == 2    \* RateLimitConfig.max_requests
WindowSecs == 2     \* RateLimitConfig.window_secs
MaxTime == 3        \* last second of the limiter's clock
MaxCalls == 4       \* number of check_rate_limit calls
MaxArrivals == 3    \* number of HTTP requests the order handlers go on with
MaxFaults == 1      \* number of database statements of the handlers that give Err
MaxResting == 3     \* number of order ids handed to add_order before the cancellations

----------------------------------------------------------------------------
(* rust_decimal::Decimal *)

Dec(m, s) == [m |-> m, s |-> s]

DecZero == Dec(0, 0)

Abs(x) == IF x < 0 THEN -x ELSE x

Sign(x) == IF x < 0 THEN -1 ELSE IF x > 0 THEN 1 ELSE 0

\* integer division rounding toward zero (Rust's `/` on integers)
TruncDiv(a, b) == Sign(a) * Sign(b) * (Abs(a) \div Abs(b))

RECURSIVE Pow10(_)
Pow10(n) == IF n = 0 THEN 1 ELSE 10 * Pow10(n - 1)

MaxOf(a, b) == IF a >= b THEN a ELSE b

\* integer part and fractional digits (at scale sc) of |d|
DecIntPart(d) == Abs(d.m) \div Pow10(d.s)
DecFracAt(d, sc) == (Abs(d.m) % Pow10(d.s)) * Pow10(sc - d.s)

\* comparison of the magnitudes |a| and |b|: -1, 0 or 1
DecCmpAbs(a, b) ==
    LET sc == MaxOf(a.s, b.s)
    IN  IF DecIntPart(a) < DecIntPart(b) THEN -1
        ELSE IF DecIntPart(a) > DecIntPart(b) THEN 1
        ELSE IF DecFracAt(a, sc) < DecFracAt(b, sc) THEN -1
        ELSE IF DecFracAt(a, sc) > DecFracAt(b, sc) THEN 1
        ELSE 0

\* Decimal's Ord: comparison by numeric value, whatever the scales
DecCmp(a, b) ==
    IF Sign(a.m) # Sign(b.m)
    THEN (IF Sign(a.m) < Sign(b.m) THEN -1 ELSE 1)
    ELSE Sign(a.m + b.m) * DecCmpAbs(a, b)

DecEq(a, b) == DecCmp(a, b) = 0
DecLt(a, b) == DecCmp(a, b) < 0
DecLe(a, b) == DecCmp(a, b) <= 0
DecGt(a, b) == DecCmp(a, b) > 0
DecGe(a, b) == DecCmp(a, b) >= 0

\* Decimal::min
DecMin(a, b) == IF DecLe(a, b) THEN a ELSE b

\* a + b and a - b: the operands are brought to the larger scale
DecAdd(a, b) ==
    LET sc == MaxOf(a.s, b.s)
    IN  Dec(a.m * Pow10(sc - a.s) + b.m * Pow10(sc - b.s), sc)

DecSub(a, b) ==
    LET sc == MaxOf(a.s, b.s)
    IN  Dec(a.m * Pow10(sc - a.s) - b.m * Pow10(sc - b.s), sc)

\* a * b: mantissas multiply, scales add
DecMul(a, b) == Dec(a.m * b.m, a.s + b.s)

\* Decimal::trunc: drops the fractional digits, result of scale 0
DecTrunc(d) == Dec(TruncDiv(d.m, Pow10(d.s)), 0)

\* strips trailing zeros of the fraction
RECURSIVE DecNormalize(_)
DecNormalize(d) ==
    IF d.s > 0 /\ d.m % 10 = 0 THEN DecNormalize(Dec(d.m \div 10, d.s - 1))
    ELSE d

\* Decimal::from(i64)
DecFromInt(i) == Dec(i, 0)

----------------------------------------------------------------------------
(* PriceLevel (types.rs) *)

PRICE_SCALE == 100000000

\* PriceLevel::from_decimal: price * 10^8, truncated; the level is the raw integer
from_decimal(price) ==
    LET scaled    == DecMul(price, DecFromInt(PRICE_SCALE))
        truncated == DecTrunc(scaled)
    IN  TruncDiv(truncated.m, Pow10(truncated.s))

\* PriceLevel::to_decimal: raw / 10^8 (an exact quotient, of minimal scale)
to_decimal(level) == DecNormalize(Dec(level, 8))

----------------------------------------------------------------------------
(* PriceLevel at its full width.  PriceLevel holds an i64 and a Decimal a   *)
(* 96-bit mantissa; integers of that size are held as a sign and a sequence *)
(* of limbs in base 10^4, least significant first, without leading zeros    *)

Base == Pow10(4)

\* drops the zero limbs at the most significant end
RECURSIVE Trim(_)
Trim(mag) ==
    IF mag # <<>> /\ mag[Len(mag)] = 0 THEN Trim(SubSeq(mag, 1, Len(mag) - 1)) ELSE mag

RECURSIVE Reverse(_)
Reverse(q) == IF q = <<>> THEN <<>> ELSE Append(Reverse(Tail(q)), q[1])

\* the magnitude written as groups of four decimal digits, most significant first
Limbs(groups) == Trim(Reverse(groups))

Wide(neg, mag) == [neg |-> neg /\ mag # <<>>, mag |-> mag]

\* comparison of two magnitudes: -1, 0 or 1
RECURSIVE MagCmpFrom(_, _, _)
MagCmpFrom(a, b, i) ==
    IF i = 0 THEN 0
    ELSE IF a[i] < b[i] THEN -1
    ELSE IF a[i] > b[i] THEN 1
    ELSE MagCmpFrom(a, b, i - 1)

MagCmp(a, b) ==
    IF Len(a) < Len(b) THEN -1
    ELSE IF Len(a) > Len(b) THEN 1
    ELSE MagCmpFrom(a, b, Len(a))

LimbAt(a, i) == IF i <= Len(a) THEN a[i] ELSE 0

\* a + b
RECURSIVE MagAddFrom(_, _, _, _)
MagAddFrom(a, b, i, carry) ==
    IF i > Len(a) /\ i > Len(b)
    THEN (IF carry = 0 THEN <<>> ELSE <<carry>>)
    ELSE LET t == LimbAt(a, i) + LimbAt(b, i) + carry
         IN  <<t % Base>> \o MagAddFrom(a, b, i + 1, t \div Base)

MagAdd(a, b) == Trim(MagAddFrom(a, b, 1, 0))

\* a - b, for a >= b
RECURSIVE MagSubFrom(_, _, _, _)
MagSubFrom(a, b, i, borrow) ==
    IF i > Len(a) THEN <<>>
    ELSE LET t == a[i] - LimbAt(b, i) - borrow
         IN  IF t < 0 THEN <<t + Base>> \o MagSubFrom(a, b, i + 1, 1)
             ELSE <<t>> \o MagSubFrom(a, b, i + 1, 0)

MagSub(a, b) == Trim(MagSubFrom(a, b, 1, 0))

\* a * k, for 0 <= k <= Base
RECURSIVE MagMulFrom(_, _, _, _)
MagMulFrom(a, k, i, carry) ==
    IF i > Len(a)
    THEN (IF carry = 0 THEN <<>> ELSE <<carry>>)
    ELSE LET t == a[i] * k + carry
         IN  <<t % Base>> \o MagMulFrom(a, k, i + 1, t \div Base)

MagMulSmall(a, k) == Trim(MagMulFrom(a, k, 1, 0))

\* a / k rounded down, for 0 < k <= Base
RECURSIVE MagDivFrom(_, _, _, _)
MagDivFrom(a, k, i, rem) ==
    IF i = 0 THEN <<>>
    ELSE LET t == rem * Base + a[i]
         IN  Append(MagDivFrom(a, k, i - 1, t % k), t \div k)

MagDivSmall(a, k) == Trim(MagDivFrom(a, k, Len(a), 0))

\* a * 10^n and a / 10^n (rounded down)
RECURSIVE MagMulPow10(_, _)
MagMulPow10(a, n) == IF n = 0 THEN a ELSE MagMulPow10(MagMulSmall(a, 10), n - 1)

RECURSIVE MagDivPow10(_, _)
MagDivPow10(a, n) == IF n = 0 THEN a ELSE MagDivPow10(MagDivSmall(a, 10), n - 1)

\* a * 10^n, by whole limbs and then by the rest of the power
MagTimesPow10(a, n) ==
    IF a = <<>> THEN <<>>
    ELSE MagMulSmall([i \in 1 .. (n \div 4) |-> 0] \o a, Pow10(n % 4))

\* the magnitude of a natural number of the model
RECURSIVE IntMag(_)
IntMag(n) == IF n = 0 THEN <<>> ELSE <<n % Base>> \o IntMag(n \div Base)

\* the natural number of a magnitude of at most two limbs
MagInt(mag) == LimbAt(mag, 1) + Base * LimbAt(mag, 2)

\* a modulo k, for 0 < k <= Base
RECURSIVE MagRemFrom(_, _, _, _)
MagRemFrom(a, k, i, rem) ==
    IF i = 0 THEN rem ELSE MagRemFrom(a, k, i - 1, (rem * Base + a[i]) % k)

MagRem(a, k) == MagRemFrom(a, k, Len(a), 0)

\* 2^96 - 1, the largest mantissa of a Decimal
MaxMantissa == Limbs(<<7, 9228, 1625, 1426, 4337, 5935, 4395, 335>>)

\* Decimal division, the digits after the integer quotient: while a
\* remainder is left, the scale is below 28 and the mantissa with one more
\* digit still fits in 96 bits, the quotient gets its next digit
RECURSIVE DivDigits(_, _, _, _)
DivDigits(q, r, k, s) ==
    IF r = 0 \/ s >= 28
    THEN [q |-> q, r |-> r, s |-> s]
    ELSE IF MagCmp(MagAdd(MagMulSmall(q, 10), IntMag((r * 10) \div k)), MaxMantissa) > 0
    THEN [q |-> q, r |-> r, s |-> s]
    ELSE DivDigits(MagAdd(MagMulSmall(q, 10), IntMag((r * 10) \div k)),
                   (r * 10) % k, k, s + 1)

\* the last digit is rounded to the nearest, a tie to the even digit
DivRound(d, k, neg) ==
    [neg |-> neg /\ d.q # <<>>,
     mag |-> IF 2 * d.r > k \/ (2 * d.r = k /\ d.q # <<>> /\ d.q[1] % 2 = 1)
             THEN MagAdd(d.q, <<1>>) ELSE d.q,
     s   |-> d.s]

\* a / b of two Decimals (b not zero, its mantissa at most Base): a Decimal
\* of full width, exact when the quotient has a decimal expansion that a
\* Decimal holds, else rounded at the largest scale a Decimal holds
DivFrom(num, k, s, neg) ==
    DivRound(DivDigits(MagDivSmall(num, k), MagRem(num, k), k, s), k, neg)

DecDiv(a, b) ==
    DivFrom(MagTimesPow10(IntMag(Abs(a.m)), IF a.s < b.s THEN b.s - a.s ELSE 0),
            Abs(b.m),
            IF a.s < b.s THEN 0 ELSE a.s - b.s,
            (a.m < 0) # (b.m < 0))

\* a Decimal of the model's integers at full width, and back
Widen(a) == [neg |-> a.m < 0, mag |-> IntMag(Abs(a.m)), s |-> a.s]
Narrow(w) == [m |-> IF w.neg THEN 0 - MagInt(w.mag) ELSE MagInt(w.mag), s |-> w.s]

\* signed comparison and addition
WideCmp(x, y) ==
    IF x.neg /\ ~y.neg THEN -1
    ELSE IF ~x.neg /\ y.neg THEN 1
    ELSE IF x.neg THEN MagCmp(y.mag, x.mag)
    ELSE MagCmp(x.mag, y.mag)

WideAdd(x, y) ==
    IF x.neg = y.neg THEN Wide(x.neg, MagAdd(x.mag, y.mag))
    ELSE IF MagCmp(x.mag, y.mag) >= 0 THEN Wide(x.neg, MagSub(x.mag, y.mag))
    ELSE Wide(y.neg, MagSub(y.mag, x.mag))

WideNeg(x) == Wide(~x.neg, x.mag)

\* 2^63 and 2^64
TwoTo63 == Wide(FALSE, Limbs(<<922, 3372, 368, 5477, 5808>>))
TwoTo64 == Wide(FALSE, Limbs(<<1844, 6744, 737, 955, 1616>>))

\* `value as i64` of an i128: the value modulo 2^64, in -2^63 .. 2^63 - 1
RECURSIVE AsI64(_)
AsI64(x) ==
    IF WideCmp(x, TwoTo63) >= 0 THEN AsI64(WideAdd(x, WideNeg(TwoTo64)))
    ELSE IF WideCmp(x, WideNeg(TwoTo63)) < 0 THEN AsI64(WideAdd(x, TwoTo64))
    ELSE x

\* a Decimal of full width: the mantissa (sign and magnitude) and the scale
WideDec(neg, groups, s) == [neg |-> neg /\ Limbs(groups) # <<>>, mag |-> Limbs(groups), s |-> s]

\* comparison of two Decimals by value: -1, 0 or 1
WideDecCmp(a, b) ==
    LET sc == MaxOf(a.s, b.s)
    IN  WideCmp(Wide(a.neg, MagMulPow10(a.mag, sc - a.s)),
                Wide(b.neg, MagMulPow10(b.mag, sc - b.s)))

\* the quotient of a Decimal division has no trailing zeros in its fraction
RECURSIVE WideDecNormalize(_)
WideDecNormalize(d) ==
    IF d.s > 0 /\ d.mag # <<>> /\ d.mag[1] % 10 = 0
    THEN WideDecNormalize([d EXCEPT !.mag = MagDivSmall(d.mag, 10), !.s = d.s - 1])
    ELSE IF d.mag = <<>> THEN [d EXCEPT !.s = 0]
    ELSE d

\* PriceLevel::from_decimal on a Decimal of full width; the variant scales by 10^7
from_decimal_i64_Scale7(price) ==
    LET scaled    == [price EXCEPT !.mag = MagMulPow10(price.mag, 7)]
        truncated == [scaled EXCEPT !.mag = MagDivPow10(scaled.mag, scaled.s), !.s = 0]
        value     == Wide(truncated.neg, MagDivPow10(truncated.mag, truncated.s))
    IN  AsI64(value)

from_decimal_i64(price) ==
    LET scaled    == [price EXCEPT !.mag = MagMulPow10(price.mag, 8)]
        truncated == [scaled EXCEPT !.mag = MagDivPow10(scaled.mag, scaled.s), !.s = 0]
        value     == Wide(truncated.neg, MagDivPow10(truncated.mag, truncated.s))
    IN  AsI64(value)

\* PriceLevel::to_decimal on an i64
to_decimal_i64(level) ==
    WideDecNormalize([neg |-> level.neg, mag |-> level.mag, s |-> 8])

\* the prices handed to PriceLevel::from_decimal at full width: the prices of
\* the unit tests, prices around the ends of the i64 range of price * 10^8,
\* and one price of 9 fractional digits
WidePrices ==
    { WideDec(FALSE, <<0>>, 0),
      WideDec(FALSE, <<1>>, 8),
      WideDec(FALSE, <<15>>, 9),
      WideDec(TRUE, <<15>>, 1),
      WideDec(FALSE, <<1000>>, 1),
      WideDec(FALSE, <<2000>>, 1),
      WideDec(FALSE, <<975, 50>>, 2),
      WideDec(FALSE, <<9, 7500, 1234, 5678>>, 8),
      WideDec(FALSE, <<922, 3372, 368, 5477, 5807>>, 8),
      WideDec(FALSE, <<922, 3372, 368, 5477, 5808>>, 8),
      WideDec(FALSE, <<1844, 6744, 737, 955, 1617>>, 8),
      WideDec(TRUE, <<922, 3372, 368, 5477, 5808>>, 8),
      WideDec(TRUE, <<922, 3372, 368, 5477, 5809>>, 8) }

WideZero == Wide(FALSE, <<>>)

\* two prices, their PriceLevels and the prices decoded from the levels
Conv(pc, p1, p2, l1, l2, back1, back2) ==
    [pc |-> pc, p1 |-> p1, p2 |-> p2, l1 |-> l1, l2 |-> l2, back1 |-> back1, back2 |-> back2]

NoConv ==
    Conv("none", WideDec(FALSE, <<0>>, 0), WideDec(FALSE, <<0>>, 0), WideZero, WideZero,
         WideDec(FALSE, <<0>>, 0), WideDec(FALSE, <<0>>, 0))

----------------------------------------------------------------------------
(* Inputs *)

Buy  == "Buy"
Sell == "Sell"
Sides == {Buy, Sell}

\* Option<T>: None is the empty sequence, Some(x) the one-element sequence
None == <<>>
Some(x) == <<x>>
IsSome(o) == o # <<>>
Unwrap(o) == o[1]

OrderIds == 1 .. MaxOrders

\* the id of the incoming (taker) order of a match_order call: never a resting one
TakerId == MaxOrders + 1

\* prices: 0.00000001, 0.000000015 (9 fractional digits) and 1
Prices == {Dec(1, 8), Dec(15, 9), Dec(1, 0)}

\* amounts of resting orders: 1 and 2
Amounts == {Dec(1, 0), Dec(2, 0)}

\* amounts a caller may hand to match_order: -1, 0, 1, 2 and 3
TakerAmounts == {Dec(-1, 0), Dec(0, 0), Dec(1, 0), Dec(2, 0), Dec(3, 0)}

Limits == {None} \cup {Some(p) : p \in Prices}

\* OrderEntry (types.rs); user_address, time_in_force and timestamp play no
\* part in the book's algorithms
OrderEntry(id, price, original, remaining, side) ==
    [id |-> id, price |-> price, original_amount |-> original,
     remaining_amount |-> remaining, side |-> side]

----------------------------------------------------------------------------
(* BTreeMap<PriceLevel, VecDeque<OrderEntry>> and DashMap<Uuid, (Side, PriceLevel)> *)

EmptyMap == [l \in {} |-> <<>>]

MapRemove(m, k) == [l \in DOMAIN m \ {k} |-> m[l]]

MapPut(m, k, v) == [l \in DOMAIN m \cup {k} |-> IF l = k THEN v ELSE m[l]]

\* bids.entry(level).or_insert_with(VecDeque::new).push_back(entry); the
\* variant pushes at the front
PushBack_Front(m, level, entry) ==
    IF level \in DOMAIN m THEN MapPut(m, level, <<entry>> \o m[level])
    ELSE MapPut(m, level, <<entry>>)

PushBack(m, level, entry) ==
    IF level \in DOMAIN m THEN MapPut(m, level, Append(m[level], entry))
    ELSE MapPut(m, level, <<entry>>)

MinOf(S) == CHOOSE x \in S : \A y \in S : x <= y
MaxOfSet(S) == CHOOSE x \in S : \A y \in S : x >= y

\* keys() of a BTreeMap: ascending
RECURSIVE KeysAsc(_)
KeysAsc(S) == IF S = {} THEN <<>> ELSE <<MinOf(S)>> \o KeysAsc(S \ {MinOf(S)})

\* keys().rev(): descending
RECURSIVE KeysDesc(_)
KeysDesc(S) == IF S = {} THEN <<>> ELSE <<MaxOfSet(S)>> \o KeysDesc(S \ {MaxOfSet(S)})

\* iter.take(n)
Take(seq, n) == SubSeq(seq, 1, IF n < Len(seq) THEN n ELSE Len(seq))

\* queue.iter().position(|o| o.id == order_id): 0 when there is none
Position(queue, id) ==
    IF \E i \in 1 .. Len(queue) : queue[i].id = id
    THEN MinOf({i \in 1 .. Len(queue) : queue[i].id = id})
    ELSE 0

\* queue.remove(pos); the variant is queue.pop_front()
RemoveAt_Front(queue, pos) == Tail(queue)

RemoveAt(queue, pos) ==
    [i \in 1 .. Len(queue) - 1 |-> IF i < pos THEN queue[i] ELSE queue[i + 1]]

\* the state of one Orderbook
Book(b, a, idx, cnt, ltp) ==
    [bids |-> b, asks |-> a, order_index |-> idx, order_count |-> cnt,
     last_trade_price |-> ltp]

\* Orderbook::new
NewBook == Book(EmptyMap, EmptyMap, EmptyMap, 0, 0)

SideMap(book, side) == IF side = Buy THEN book.bids ELSE book.asks

WithSideMap(book, side, m) ==
    IF side = Buy THEN [book EXCEPT !.bids = m] ELSE [book EXCEPT !.asks = m]

Opposite(side) == IF side = Buy THEN Sell ELSE Buy

----------------------------------------------------------------------------
(* Orderbook::add_order *)

\* the variant registers the order in the index and leaves the queue alone
add_order_IndexOnly(book, entry) ==
    [book EXCEPT !.order_index = MapPut(@, entry.id, <<entry.side, from_decimal(entry.price)>>),
                 !.order_count = @ + 1]

add_order(book, entry) ==
    LET price_level == from_decimal(entry.price)
        side        == entry.side
        b1 == WithSideMap(book, side, PushBack(SideMap(book, side), price_level, entry))
    IN  [b1 EXCEPT !.order_index = MapPut(@, entry.id, <<side, price_level>>),
                   !.order_count = @ + 1]

----------------------------------------------------------------------------
(* Orderbook::cancel_order: the book afterwards and the returned entry *)

\* removal of the entry from its queue, under the side's write lock; the
\* variant returns the entry and leaves it in the queue
CancelFromQueue_KeepEntry(m, price_level, order_id) ==
    IF price_level \in DOMAIN m /\ Position(m[price_level], order_id) # 0
    THEN [map |-> m, entry |-> Some(m[price_level][Position(m[price_level], order_id)])]
    ELSE [map |-> m, entry |-> None]

CancelFromQueue(m, price_level, order_id) ==
    IF price_level \in DOMAIN m
    THEN LET queue == m[price_level]
             pos   == Position(queue, order_id)
         IN  IF pos # 0
             THEN LET rest == RemoveAt(queue, pos)
                  IN  [map   |-> IF rest = <<>> THEN MapRemove(m, price_level)
                                 ELSE MapPut(m, price_level, rest),
                       entry |-> Some(queue[pos])]
             ELSE [map |-> m, entry |-> None]
    ELSE [map |-> m, entry |-> None]

\* the variant forgets order_count
cancel_order_NoCount(book, order_id) ==
    IF order_id \notin DOMAIN book.order_index
    THEN [book |-> book, entry |-> None]
    ELSE LET side        == book.order_index[order_id][1]
             price_level == book.order_index[order_id][2]
             b1 == [book EXCEPT !.order_index = MapRemove(@, order_id)]
             r  == CancelFromQueue(SideMap(b1, side), price_level, order_id)
         IN  [book |-> WithSideMap(b1, side, r.map), entry |-> r.entry]

cancel_order(book, order_id) ==
    IF order_id \notin DOMAIN book.order_index
    THEN [book |-> book, entry |-> None]
    ELSE LET side        == book.order_index[order_id][1]
             price_level == book.order_index[order_id][2]
             b1 == [book EXCEPT !.order_index = MapRemove(@, order_id)]
             r  == CancelFromQueue(SideMap(b1, side), price_level, order_id)
             b2 == WithSideMap(b1, side, r.map)
         IN  [book  |-> IF IsSome(r.entry) THEN [b2 EXCEPT !.order_count = @ - 1] ELSE b2,
              entry |-> r.entry]

----------------------------------------------------------------------------
(* Orderbook::set_last_trade_price and last_trade_price *)

\* Decimal::to_string has a fractional part exactly when the scale is > 0;
\* str::parse::<i64> accepts only an integer numeral
ParseI64OfString(d) == IF d.s > 0 THEN None ELSE Some(d.m)

\* unwrap_or(0) of the parse of (price * 10^8).to_string()
set_last_trade_price(price) ==
    LET parsed == ParseI64OfString(DecMul(price, DecFromInt(PRICE_SCALE)))
    IN  IF IsSome(parsed) THEN Unwrap(parsed) ELSE 0

get_last_trade_price(raw) ==
    IF raw = 0 THEN None ELSE Some(to_decimal(raw))

----------------------------------------------------------------------------
(* Orderbook::match_order *)

\* FeeConfig::default
MAKER_FEE_RATE == Dec(2, 4)
TAKER_FEE_RATE == Dec(5, 4)

\* one fill; the variant takes the fees on the maker's whole remaining amount
TradeExecution_FeeOnMakerAmount(maker, taker_order_id, trade_amount) ==
    LET trade_price == maker.price
        trade_value == DecMul(maker.remaining_amount, trade_price)
    IN  [maker_order_id |-> maker.id,
         taker_order_id |-> taker_order_id,
         price          |-> trade_price,
         amount         |-> trade_amount,
         maker_fee      |-> DecMul(trade_value, MAKER_FEE_RATE),
         taker_fee      |-> DecMul(trade_value, TAKER_FEE_RATE)]

TradeExecution(maker, taker_order_id, trade_amount) ==
    LET trade_price == maker.price
        trade_value == DecMul(trade_amount, trade_price)
    IN  [maker_order_id |-> maker.id,
         taker_order_id |-> taker_order_id,
         price          |-> trade_price,
         amount         |-> trade_amount,
         maker_fee      |-> DecMul(trade_value, MAKER_FEE_RATE),
         taker_fee      |-> DecMul(trade_value, TAKER_FEE_RATE)]

\* the running state of one match_order call: the opposite side's map (held
\* under its write lock), the index, the counters, the taker's amount left
\* and the trades so far
MatchState(m, idx, cnt, ltp, amount, trades) ==
    [map |-> m, order_index |-> idx, order_count |-> cnt,
     last_trade_price |-> ltp, amount |-> amount, trades |-> trades]

\* the amount of one fill; the variant fills the taker's whole amount
TradeAmount_Whole(amount, maker) == amount

TradeAmount(amount, maker) == DecMin(amount, maker.remaining_amount)

\* maker.remaining_amount -= trade_amount, with a variant that leaves the maker as it was
FillMaker_Unchanged(maker, trade_amount) == maker

FillMaker(maker, trade_amount) ==
    [maker EXCEPT !.remaining_amount = DecSub(@, trade_amount)]

\* a maker is taken out of its queue when nothing of it remains; the variant
\* tests `< 0` in place of `<= 0`
FullyFilled_Strict(maker) == DecLt(maker.remaining_amount, DecZero)

FullyFilled(maker) == DecLe(maker.remaining_amount, DecZero)

\* the removal of a fully filled maker: queue.pop_front(), order_index.remove,
\* order_count.fetch_sub; the variant forgets the index
RemoveFilled_KeepIndex(st, price_level, maker_id) ==
    [st EXCEPT !.map = MapPut(@, price_level, Tail(st.map[price_level])),
               !.order_count = @ - 1]

RemoveFilled(st, price_level, maker_id) ==
    [st EXCEPT !.map = MapPut(@, price_level, Tail(st.map[price_level])),
               !.order_index = MapRemove(@, maker_id),
               !.order_count = @ - 1]

\* one pass of the body of `while let Some(maker) = queue.front_mut()`
FillFront(st, price_level, taker_order_id) ==
    LET queue        == st.map[price_level]
        maker        == Head(queue)
        trade_amount == TradeAmount(st.amount, maker)
        trade        == TradeExecution(maker, taker_order_id, trade_amount)
        maker2       == FillMaker(maker, trade_amount)
        s1 == [st EXCEPT !.trades = Append(@, trade),
                         !.amount = DecSub(@, trade_amount),
                         !.map = MapPut(@, price_level, <<maker2>> \o Tail(queue)),
                         !.last_trade_price = set_last_trade_price(maker.price)]
    IN  IF FullyFilled(maker2) THEN RemoveFilled(s1, price_level, maker2.id) ELSE s1

\* the while loop over the front of one level's queue
RECURSIVE DrainQueue(_, _, _)
DrainQueue(st, price_level, taker_order_id) ==
    IF st.map[price_level] = <<>> \/ DecLe(st.amount, DecZero) THEN st
    ELSE DrainQueue(FillFront(st, price_level, taker_order_id), price_level, taker_order_id)

\* `if let Some(queue) = asks.get_mut(&price_level) { ... }` and the removal
\* of the level when its queue is empty; the variant leaves the empty level
MatchLevel_KeepLevel(st, price_level, taker_order_id) ==
    IF price_level \in DOMAIN st.map THEN DrainQueue(st, price_level, taker_order_id) ELSE st

MatchLevel(st, price_level, taker_order_id) ==
    IF price_level \in DOMAIN st.map
    THEN LET s1 == DrainQueue(st, price_level, taker_order_id)
         IN  IF s1.map[price_level] = <<>>
             THEN [s1 EXCEPT !.map = MapRemove(@, price_level)]
             ELSE s1
    ELSE st

\* the variant also stops at a level whose price is the limit
BeyondLimit_AtLimit(side, level_price, limit_price) ==
    /\ IsSome(limit_price)
    /\ IF side = Buy THEN DecGe(level_price, Unwrap(limit_price))
       ELSE DecLe(level_price, Unwrap(limit_price))

\* the level is beyond the limit of a limit order
BeyondLimit(side, level_price, limit_price) ==
    /\ IsSome(limit_price)
    /\ IF side = Buy THEN DecGt(level_price, Unwrap(limit_price))
       ELSE DecLt(level_price, Unwrap(limit_price))

\* `for price_level in price_levels { ... }`
RECURSIVE MatchLevels(_, _, _, _, _)
MatchLevels(st, price_levels, side, limit_price, taker_order_id) ==
    IF price_levels = <<>> THEN st
    ELSE IF DecLe(st.amount, DecZero) THEN st
    ELSE IF BeyondLimit(side, to_decimal(Head(price_levels)), limit_price) THEN st
    ELSE MatchLevels(MatchLevel(st, Head(price_levels), taker_order_id),
                     Tail(price_levels), side, limit_price, taker_order_id)

\* the levels of the opposite side in matching order; the variant walks the
\* best level only
PriceLevels_BestOnly(side, m) ==
    Take(IF side = Buy THEN KeysAsc(DOMAIN m) ELSE KeysDesc(DOMAIN m), 1)

PriceLevels(side, m) == IF side = Buy THEN KeysAsc(DOMAIN m) ELSE KeysDesc(DOMAIN m)

\* the variant matches the amount without its sign
match_order_Unsigned(book, taker_order_id, side, amount, limit_price) ==
    LET opp == Opposite(side)
        m   == SideMap(book, opp)
        st0 == MatchState(m, book.order_index, book.order_count,
                          book.last_trade_price, [amount EXCEPT !.m = Abs(@)], <<>>)
        st  == MatchLevels(st0, PriceLevels(side, m), side, limit_price, taker_order_id)
        b1  == WithSideMap(book, opp, st.map)
    IN  [book   |-> [b1 EXCEPT !.order_index = st.order_index,
                               !.order_count = st.order_count,
                               !.last_trade_price = st.last_trade_price],
         trades |-> st.trades,
         amount |-> st.amount]

\* the book afterwards, the trades and the amount left
match_order(book, taker_order_id, side, amount, limit_price) ==
    LET opp == Opposite(side)
        m   == SideMap(book, opp)
        st0 == MatchState(m, book.order_index, book.order_count,
                          book.last_trade_price, amount, <<>>)
        st  == MatchLevels(st0, PriceLevels(side, m), side, limit_price, taker_order_id)
        b1  == WithSideMap(book, opp, st.map)
    IN  [book   |-> [b1 EXCEPT !.order_index = st.order_index,
                               !.order_count = st.order_count,
                               !.last_trade_price = st.last_trade_price],
         trades |-> st.trades,
         amount |-> st.amount]

----------------------------------------------------------------------------
(* Orderbook::snapshot *)

\* orders.iter().map(|o| o.remaining_amount).sum()
RECURSIVE SumRemaining(_)
SumRemaining(queue) ==
    IF queue = <<>> THEN DecZero
    ELSE DecAdd(Head(queue).remaining_amount, SumRemaining(Tail(queue)))

\* one side of the snapshot: [price, total] per level; the two strings of
\* the code are represented by the Decimals they print.  The variant shows
\* one level more
SnapshotSide_OneMore(m, keys, depth) ==
    LET shown == Take(keys, depth + 1)
    IN  [i \in 1 .. Len(shown) |->
            [price |-> to_decimal(shown[i]), total |-> SumRemaining(m[shown[i]])]]

SnapshotSide(m, keys, depth) ==
    LET shown == Take(keys, depth)
    IN  [i \in 1 .. Len(shown) |->
            [price |-> to_decimal(shown[i]), total |-> SumRemaining(m[shown[i]])]]

snapshot(book, depth) ==
    [bids       |-> SnapshotSide(book.bids, KeysDesc(DOMAIN book.bids), depth),
     asks       |-> SnapshotSide(book.asks, KeysAsc(DOMAIN book.asks), depth),
     last_price |-> get_last_trade_price(book.last_trade_price)]

----------------------------------------------------------------------------
(* The book of one symbol, one call at a time *)

CurrentBook == Book(bids, asks, order_index, order_count, last_trade_price)

SetBook(book) ==
    /\ bids' = book.bids
    /\ asks' = book.asks
    /\ order_index' = book.order_index
    /\ order_count' = book.order_count
    /\ last_trade_price' = book.last_trade_price

\* the record of a completed call
Call(op, pre, id, side, amount, limit, depth, trades, remaining, entry, snap) ==
    [op |-> op, pre |-> pre, id |-> id, side |-> side, amount |-> amount,
     limit |-> limit, depth |-> depth, trades |-> trades, remaining |-> remaining,
     entry |-> entry, snap |-> snap]

NoSnap == [bids |-> <<>>, asks |-> <<>>, last_price |-> None]

NoCall == Call("new", NewBook, 0, Buy, DecZero, None, 0, <<>>, DecZero, None, NoSnap)

Threads == 1 .. NThreads

\* the top levels of both sides as a snapshot of the depth lists them
Tops(b, a, depth) ==
    [bids |-> SnapshotSide(b, KeysDesc(DOMAIN b), depth),
     asks |-> SnapshotSide(a, KeysAsc(DOMAIN a), depth)]

\* no snapshot call
NoView == [depth |-> 0, bids |-> <<>>, asks |-> <<>>, seen |-> {}]

\* the views after a step that left the book as b, a: every snapshot call
\* that has read the bids and not yet the asks has seen these tops too
Observed(v, calls, b, a) ==
    [t \in DOMAIN v |->
        IF calls[t].op = "snapshot" /\ calls[t].pc = "p_asks"
        THEN [v[t] EXCEPT !.seen = @ \cup {Tops(b, a, v[t].depth)}]
        ELSE v[t]]

Watched == views' = Observed(views, th, bids', asks')

\* the row after a deposit of 2, nothing frozen; ledger holds, per order,
\* the margin frozen for it and the unfreeze statements executed for it
Deposited == [available |-> Dec(2, 0), frozen |-> DecZero, ledger |-> EmptyMap]

\* a limiter that has answered no call
NoLimiter == [entries |-> EmptyMap, now |-> 0, granted |-> <<>>]

\* no request has arrived and no statement has failed
NoFlow == [arrived |-> 0, faults |-> 0]

\* a call of persist_trade before its first statement: the statement it
\* executes next and what its two leverage lookups found
NewCall == [pc |-> "trades", maker_leverage |-> FALSE, taker_leverage |-> FALSE]

\* a thread that has not called yet
IdleThread ==
    [op |-> "none", pc |-> "idle", id |-> 0, side |-> Buy, amount |-> DecZero,
     limit |-> None, levels |-> <<>>, saved |-> None, maker_id |-> 0,
     trades |-> <<>>, entry |-> None]

\* the program after construction, beside an orders table that holds `rows`
InitRows(rows) ==
    /\ bids = EmptyMap
    /\ asks = EmptyMap
    /\ order_index = EmptyMap
    /\ order_count = 0
    /\ last_trade_price = 0
    /\ next_id = 1
    /\ cancelled = {}
    /\ last = NoCall
    /\ th = [t \in Threads |-> IdleThread]
    /\ lock = [s \in Sides |-> 0]
    /\ book_taker = [id \in OrderIds |-> 0]
    /\ idx_taker = [id \in OrderIds |-> 0]
    /\ ecall = None
    /\ trade_tx = <<>>
    /\ book_tx = 0
    /\ worker = [pos |-> 0, busy |-> None, failed |-> <<>>, lagged |-> 0,
                 persisted |-> <<>>, tasks |-> {}, positions |-> <<>>,
                 stopped |-> FALSE, trades |-> {}, earnings |-> <<>>, replayed |-> {},
                 call |-> NewCall, again |-> None, recall |-> NewCall]
    /\ db = rows
    /\ req = <<>>
    /\ exec = <<>>
    /\ engine_filled = {}
    /\ views = [t \in Threads |-> NoView]
    /\ balances = Deposited
    /\ limiter = NoLimiter
    /\ flow = NoFlow

InitState == InitRows(EmptyMap)

Init == InitState /\ conv = NoConv

\* add_order(entry) with a fresh id
AddOrder ==
    /\ last = NoCall
    /\ next_id <= MaxOrders
    /\ \E side \in Sides, price \in Prices, original \in Amounts, remaining \in Amounts :
          /\ DecLe(remaining, original)
          /\ LET entry == OrderEntry(next_id, price, original, remaining, side)
             IN  /\ SetBook(add_order(CurrentBook, entry))
                 /\ last' = Call("add", CurrentBook, next_id, side, remaining, Some(price),
                                 0, <<>>, DecZero, Some(entry), NoSnap)
    /\ next_id' = next_id + 1
    /\ UNCHANGED cancelled
    /\ UNCHANGED concvars
    /\ UNCHANGED engvars

\* cancel_order(order_id), for any id: resident, gone or never added
CancelOrder ==
    /\ last = NoCall
    /\ \E order_id \in OrderIds :
          LET r == cancel_order(CurrentBook, order_id)
          IN  /\ SetBook(r.book)
              /\ last' = Call("cancel", CurrentBook, order_id, Buy, DecZero, None,
                              0, <<>>, DecZero, r.entry, NoSnap)
              /\ cancelled' = IF IsSome(r.entry) THEN cancelled \cup {order_id} ELSE cancelled
    /\ UNCHANGED next_id
    /\ UNCHANGED concvars
    /\ UNCHANGED engvars

\* match_order(taker, side, amount, limit_price)
MatchOrder ==
    /\ last = NoCall
    /\ \E side \in Sides, amount \in TakerAmounts, limit_price \in Limits :
          LET r == match_order(CurrentBook, TakerId, side, amount, limit_price)
          IN  /\ SetBook(r.book)
              /\ last' = Call("match", CurrentBook, TakerId, side, amount, limit_price,
                              0, r.trades, r.amount, None, NoSnap)
    /\ UNCHANGED <<next_id, cancelled>>
    /\ UNCHANGED concvars
    /\ UNCHANGED engvars

\* snapshot(depth)
Snapshot ==
    /\ last = NoCall
    /\ \E depth \in 0 .. MaxDepth :
          last' = Call("snapshot", CurrentBook, 0, Buy, DecZero, None,
                       depth, <<>>, DecZero, None, snapshot(CurrentBook, depth))
    /\ UNCHANGED <<bids, asks, order_index, order_count, last_trade_price, next_id, cancelled>>
    /\ UNCHANGED concvars
    /\ UNCHANGED engvars

\* the call returns: its caller takes the result, the next call can start
Return ==
    /\ last # NoCall
    /\ last' = NoCall
    /\ UNCHANGED <<bids, asks, order_index, order_count, last_trade_price, next_id, cancelled>>
    /\ UNCHANGED concvars
    /\ UNCHANGED engvars

Next == AddOrder \/ CancelOrder \/ MatchOrder \/ Snapshot \/ Return

Spec == Init /\ [][Next]_vars

----------------------------------------------------------------------------
(* Concurrent callers of one Orderbook.  Each thread makes one call, after
   any number of add_order calls made one at a time.  A step is one access
   to shared state: a critical section on a side's map under its write
   lock, one operation on the order index, one update of order_count.
   match_order holds the opposite side's write lock from its first step to
   its return. *)

\* the inputs of the concurrent callers: price 1; amounts 1 and 2
ConcPrices == {Dec(1, 0)}
ConcAmounts == {Dec(1, 0), Dec(2, 0)}
ConcLimits == {None} \cup {Some(p) : p \in ConcPrices}

AllIdle == \A t \in Threads : th[t].pc = "idle"

SetSideMap(side, m) ==
    /\ bids' = IF side = Buy THEN m ELSE bids
    /\ asks' = IF side = Sell THEN m ELSE asks

\* the first removal that found the id is recorded
NoteTaker(f, id, t) == IF f[id] = 0 THEN [f EXCEPT ![id] = t] ELSE f

\* add_order, before any thread has called
SetupAdd ==
    /\ AllIdle
    /\ next_id <= MaxOrders
    /\ \E side \in Sides, price \in ConcPrices, amount \in ConcAmounts :
          SetBook(add_order(CurrentBook, OrderEntry(next_id, price, amount, amount, side)))
    /\ next_id' = next_id + 1
    /\ UNCHANGED <<seqvars, concvars>>
    /\ UNCHANGED engvars

\* add_order, lines 100-113: push_back under the side's write lock
AddQueue(t) ==
    /\ th[t].pc = "idle"
    /\ next_id <= MaxOrders
    /\ \E side \in Sides, price \in ConcPrices, amount \in ConcAmounts :
          LET entry == OrderEntry(next_id, price, amount, amount, side)
              price_level == from_decimal(price)
          IN  /\ lock[side] = 0
              /\ SetSideMap(side, PushBack(SideMap(CurrentBook, side), price_level, entry))
              /\ th' = [th EXCEPT ![t] = [IdleThread EXCEPT
                            !.op = "add", !.pc = "a_index", !.id = next_id, !.side = side,
                            !.saved = Some(<<side, price_level>>), !.entry = Some(entry)]]
    /\ next_id' = next_id + 1
    /\ UNCHANGED <<order_index, order_count, last_trade_price, seqvars, lock,
                   book_taker, idx_taker>>
    /\ UNCHANGED engvars
    /\ Watched

\* add_order, line 116: order_index.insert
AddIndex(t) ==
    /\ th[t].pc = "a_index"
    /\ order_index' = MapPut(order_index, th[t].id, Unwrap(th[t].saved))
    /\ th' = [th EXCEPT ![t].pc = "a_count"]
    /\ UNCHANGED <<bids, asks, order_count, last_trade_price, next_id, seqvars, lock,
                   book_taker, idx_taker>>
    /\ UNCHANGED engvars
    /\ Watched

\* add_order, line 117: order_count.fetch_add
AddCount(t) ==
    /\ th[t].pc = "a_count"
    /\ order_count' = order_count + 1
    /\ th' = [th EXCEPT ![t].pc = "done"]
    /\ UNCHANGED <<bids, asks, order_index, last_trade_price, next_id, seqvars, lock,
                   book_taker, idx_taker>>
    /\ UNCHANGED engvars
    /\ Watched

\* cancel_order, line 123: order_index.remove(&order_id)?
CancelIndex(t) ==
    /\ th[t].pc = "idle"
    /\ \E order_id \in OrderIds :
          IF order_id \in DOMAIN order_index
          THEN /\ order_index' = MapRemove(order_index, order_id)
               /\ idx_taker' = NoteTaker(idx_taker, order_id, t)
               /\ th' = [th EXCEPT ![t] = [IdleThread EXCEPT
                             !.op = "cancel", !.pc = "c_queue", !.id = order_id,
                             !.saved = Some(order_index[order_id])]]
          ELSE /\ th' = [th EXCEPT ![t] = [IdleThread EXCEPT
                             !.op = "cancel", !.pc = "done", !.id = order_id]]
               /\ UNCHANGED <<order_index, idx_taker>>
    /\ UNCHANGED <<bids, asks, order_count, last_trade_price, next_id, seqvars, lock,
                   book_taker>>
    /\ UNCHANGED engvars
    /\ Watched

\* cancel_order, lines 126-161: removal from the queue under the side's write lock
CancelQueue(t) ==
    /\ th[t].pc = "c_queue"
    /\ LET side        == Unwrap(th[t].saved)[1]
           price_level == Unwrap(th[t].saved)[2]
           r == CancelFromQueue(SideMap(CurrentBook, side), price_level, th[t].id)
       IN  /\ lock[side] = 0
           /\ SetSideMap(side, r.map)
           /\ th' = [th EXCEPT ![t].entry = r.entry,
                               ![t].pc = IF IsSome(r.entry) THEN "c_count" ELSE "done"]
           /\ book_taker' = IF IsSome(r.entry) THEN NoteTaker(book_taker, th[t].id, t)
                            ELSE book_taker
    /\ UNCHANGED <<order_index, order_count, last_trade_price, next_id, seqvars, lock,
                   idx_taker>>
    /\ UNCHANGED engvars
    /\ Watched

\* cancel_order, lines 163-165: order_count.fetch_sub
CancelCount(t) ==
    /\ th[t].pc = "c_count"
    /\ order_count' = order_count - 1
    /\ th' = [th EXCEPT ![t].pc = "done"]
    /\ UNCHANGED <<bids, asks, order_index, last_trade_price, next_id, seqvars, lock,
                   book_taker, idx_taker>>
    /\ UNCHANGED engvars
    /\ Watched

\* match_order, lines 187-188: the opposite side's write lock and the list of its levels
MatchLock(t) ==
    /\ th[t].pc = "idle"
    /\ \E side \in Sides, amount \in ConcAmounts, limit_price \in ConcLimits :
          /\ lock[Opposite(side)] = 0
          /\ lock' = [lock EXCEPT ![Opposite(side)] = t]
          /\ th' = [th EXCEPT ![t] = [IdleThread EXCEPT
                        !.op = "match", !.pc = "m_for", !.id = MaxOrders + t, !.side = side,
                        !.amount = amount, !.limit = limit_price,
                        !.levels = PriceLevels(side, SideMap(CurrentBook, Opposite(side)))]]
    /\ UNCHANGED <<bids, asks, order_index, order_count, last_trade_price, next_id,
                   seqvars, book_taker, idx_taker>>
    /\ UNCHANGED engvars
    /\ Watched

\* match_order, lines 190-204: the head of the for loop
MatchFor(t) ==
    /\ th[t].pc = "m_for"
    /\ LET me == th[t]
           m  == SideMap(CurrentBook, Opposite(me.side))
       IN  IF \/ me.levels = <<>>
              \/ DecLe(me.amount, DecZero)
              \/ BeyondLimit(me.side, to_decimal(Head(me.levels)), me.limit)
           THEN th' = [th EXCEPT ![t].pc = "m_unlock"]
           ELSE IF Head(me.levels) \in DOMAIN m
           THEN th' = [th EXCEPT ![t].pc = "m_while"]
           ELSE th' = [th EXCEPT ![t].levels = Tail(me.levels)]
    /\ UNCHANGED <<bids, asks, order_index, order_count, last_trade_price, next_id,
                   seqvars, lock, book_taker, idx_taker>>
    /\ UNCHANGED engvars
    /\ Watched

\* match_order, lines 205-240 and 246-248: one pass of the while loop up to
\* queue.pop_front(), or the end of the loop and the removal of an empty level
MatchWhile(t) ==
    /\ th[t].pc = "m_while"
    /\ LET me    == th[t]
           opp   == Opposite(me.side)
           m     == SideMap(CurrentBook, opp)
           level == Head(me.levels)
           queue == m[level]
       IN  IF queue = <<>>
           THEN /\ SetSideMap(opp, MapRemove(m, level))
                /\ th' = [th EXCEPT ![t].levels = Tail(me.levels), ![t].pc = "m_for"]
                /\ UNCHANGED <<last_trade_price, book_taker>>
           ELSE IF DecLe(me.amount, DecZero)
           THEN /\ th' = [th EXCEPT ![t].levels = Tail(me.levels), ![t].pc = "m_for"]
                /\ UNCHANGED <<bids, asks, last_trade_price, book_taker>>
           ELSE LET maker        == Head(queue)
                    trade_amount == TradeAmount(me.amount, maker)
                    trade        == TradeExecution(maker, me.id, trade_amount)
                    maker2       == FillMaker(maker, trade_amount)
                    filled       == FullyFilled(maker2)
                IN  /\ last_trade_price' = set_last_trade_price(maker.price)
                    /\ SetSideMap(opp, MapPut(m, level,
                                     IF filled THEN Tail(queue) ELSE <<maker2>> \o Tail(queue)))
                    /\ book_taker' = IF filled THEN NoteTaker(book_taker, maker.id, t)
                                     ELSE book_taker
                    /\ th' = [th EXCEPT ![t].trades = Append(@, trade),
                                        ![t].amount = DecSub(@, trade_amount),
                                        ![t].maker_id = maker.id,
                                        ![t].pc = IF filled THEN "m_unindex" ELSE "m_while"]
    /\ UNCHANGED <<order_index, order_count, next_id, seqvars, lock, idx_taker>>
    /\ UNCHANGED engvars
    /\ Watched

\* match_order, line 241: order_index.remove(&maker_id)
MatchUnindex(t) ==
    /\ th[t].pc = "m_unindex"
    /\ order_index' = MapRemove(order_index, th[t].maker_id)
    /\ idx_taker' = IF th[t].maker_id \in DOMAIN order_index
                    THEN NoteTaker(idx_taker, th[t].maker_id, t) ELSE idx_taker
    /\ th' = [th EXCEPT ![t].pc = "m_uncount"]
    /\ UNCHANGED <<bids, asks, order_count, last_trade_price, next_id, seqvars, lock,
                   book_taker>>
    /\ UNCHANGED engvars
    /\ Watched

\* the variant leaves order_count as it is
MatchUncount_Skip(t) ==
    /\ th[t].pc = "m_uncount"
    /\ order_count' = order_count
    /\ th' = [th EXCEPT ![t].pc = "m_while"]
    /\ UNCHANGED <<bids, asks, order_index, last_trade_price, next_id, seqvars, lock,
                   book_taker, idx_taker>>
    /\ UNCHANGED engvars
    /\ Watched

\* match_order, line 242: order_count.fetch_sub
MatchUncount(t) ==
    /\ th[t].pc = "m_uncount"
    /\ order_count' = order_count - 1
    /\ th' = [th EXCEPT ![t].pc = "m_while"]
    /\ UNCHANGED <<bids, asks, order_index, last_trade_price, next_id, seqvars, lock,
                   book_taker, idx_taker>>
    /\ UNCHANGED engvars
    /\ Watched

\* what the caller of match_order does next: submit_order rests the
\* remainder of a limit order, every other caller is done
AfterMatchOrder(me) ==
    IF me.op = "submit" /\ IsSome(me.limit) /\ DecGt(me.amount, DecZero)
    THEN "s_rest" ELSE "done"

\* match_order, line 321: the guard is dropped, (trades, amount) is returned
MatchUnlock(t) ==
    /\ th[t].pc = "m_unlock"
    /\ lock' = [lock EXCEPT ![Opposite(th[t].side)] = 0]
    /\ th' = [th EXCEPT ![t].pc = AfterMatchOrder(th[t])]
    /\ UNCHANGED <<bids, asks, order_index, order_count, last_trade_price, next_id,
                   seqvars, book_taker, idx_taker>>
    /\ UNCHANGED engvars
    /\ Watched

ThreadStep(t) ==
    \/ AddQueue(t) \/ AddIndex(t) \/ AddCount(t)
    \/ CancelIndex(t) \/ CancelQueue(t) \/ CancelCount(t)
    \/ MatchLock(t) \/ MatchFor(t) \/ MatchWhile(t)
    \/ MatchUnindex(t) \/ MatchUncount(t) \/ MatchUnlock(t)

NextConc == SetupAdd \/ \E t \in Threads : ThreadStep(t)

SpecConc == Init /\ [][NextConc]_vars

----------------------------------------------------------------------------
(* Vocabulary of the properties *)

\* the entries resident in a side map, each with the level of its queue
ResidentSets(m) ==
    UNION {{[level |-> l, pos |-> i, entry |-> m[l][i]] : i \in 1 .. Len(m[l])} : l \in DOMAIN m}

\* the residents of a side map that carry the id
WithId(m, id) == {r \in ResidentSets(m) : r.entry.id = id}

\* the remaining amount of the order in the side map, zero when it is not resident
RemainingOf(m, id) ==
    IF WithId(m, id) = {} THEN DecZero
    ELSE (CHOOSE r \in WithId(m, id) : TRUE).entry.remaining_amount

\* the sum of the amounts of the trades at the positions in S
RECURSIVE SumTrades(_, _)
SumTrades(trades, S) ==
    IF S = {} THEN DecZero
    ELSE LET i == MinOf(S) IN DecAdd(trades[i].amount, SumTrades(trades, S \ {i}))

TradesNaming(trades, id) == {i \in 1 .. Len(trades) : trades[i].maker_order_id = id}

AllTrades(trades) == 1 .. Len(trades)

\* the sum of remaining_amount over a set of residents (distinct ids)
RECURSIVE SumResidents(_)
SumResidents(S) ==
    IF S = {} THEN DecZero
    ELSE LET r == CHOOSE x \in S : TRUE
         IN  DecAdd(r.entry.remaining_amount, SumResidents(S \ {r}))

AtLevel(m, l) == {r \in ResidentSets(m) : r.level = l}

IsMatch == last.op = "match"
IsCancel == last.op = "cancel"
IsSnapshot == last.op = "snapshot"

\* the side a match_order call consumes, before and after the call
PreOpp == SideMap(last.pre, Opposite(last.side))
PostOpp == SideMap(CurrentBook, Opposite(last.side))

----------------------------------------------------------------------------
(* C1: price-time priority within a level.  Ids are handed out in the order
   of the add_order calls, so the order added earlier has the smaller id.
   Every queue holds its orders in the order they were added; a match_order
   call gives an order a fill only when every order added earlier and
   resident at the same level has been filled completely and removed, with
   all its trades earlier in the returned list; and an order that was filled
   in part and stays resident is the front of its level. *)
C1_PriceTimePriority ==
    /\ \A m \in {bids, asks} : \A l \in DOMAIN m : \A i, j \in 1 .. Len(m[l]) :
          i < j => m[l][i].id < m[l][j].id
    /\ IsMatch =>
          \A a, b \in ResidentSets(PreOpp) :
             (/\ a.level = b.level
              /\ a.entry.id < b.entry.id
              /\ TradesNaming(last.trades, b.entry.id) # {})
             => /\ WithId(PostOpp, a.entry.id) = {}
                /\ DecEq(SumTrades(last.trades, TradesNaming(last.trades, a.entry.id)),
                         a.entry.remaining_amount)
                /\ \A ta \in TradesNaming(last.trades, a.entry.id) :
                   \A tb \in TradesNaming(last.trades, b.entry.id) : ta < tb
    /\ IsMatch =>
          \A r \in ResidentSets(PostOpp) :
             TradesNaming(last.trades, r.entry.id) # {} => r.pos = 1

\* a match that filled the earlier of two orders of one level completely and
\* the later one in part, the later one staying at the front
C1_Witness ==
    /\ IsMatch
    /\ \E a, b \in ResidentSets(PreOpp) :
          /\ a.level = b.level
          /\ a.entry.id < b.entry.id
          /\ TradesNaming(last.trades, a.entry.id) # {}
          /\ TradesNaming(last.trades, b.entry.id) # {}
          /\ \E r \in WithId(PostOpp, b.entry.id) :
                r.pos = 1 /\ DecLt(r.entry.remaining_amount, b.entry.remaining_amount)

----------------------------------------------------------------------------
(* C2: price bound.  Every trade of a match_order call with
   limit_price = Some(L) has price <= L for a Buy taker and price >= L for a
   Sell taker. *)
C2_PriceBound ==
    (IsMatch /\ IsSome(last.limit)) =>
       \A i \in 1 .. Len(last.trades) :
          IF last.side = Buy
          THEN DecLe(last.trades[i].price, Unwrap(last.limit))
          ELSE DecGe(last.trades[i].price, Unwrap(last.limit))

----------------------------------------------------------------------------
(* C3: conservation.  The trades' amounts plus the returned amount equal the
   submitted amount; every order resident on the opposite side loses exactly
   the amounts of the trades naming it (every trade names such an order);
   and the opposite side's total resting amount falls by the trades' total. *)
C3_Conservation ==
    IsMatch =>
       /\ DecEq(DecAdd(SumTrades(last.trades, AllTrades(last.trades)), last.remaining),
                last.amount)
       /\ \A i \in 1 .. Len(last.trades) :
             WithId(PreOpp, last.trades[i].maker_order_id) # {}
       /\ \A r \in ResidentSets(PreOpp) :
             DecEq(DecSub(r.entry.remaining_amount, RemainingOf(PostOpp, r.entry.id)),
                   SumTrades(last.trades, TradesNaming(last.trades, r.entry.id)))
       /\ DecEq(DecSub(SumResidents(ResidentSets(PreOpp)), SumResidents(ResidentSets(PostOpp))),
                SumTrades(last.trades, AllTrades(last.trades)))
       /\ \A r \in ResidentSets(PostOpp) : WithId(PreOpp, r.entry.id) # {}

\* a match with two trades, one maker filled completely and one in part
C3_Witness ==
    /\ IsMatch
    /\ Len(last.trades) >= 2
    /\ \E r \in ResidentSets(PostOpp) : TradesNaming(last.trades, r.entry.id) # {}
    /\ \E r \in ResidentSets(PreOpp) : WithId(PostOpp, r.entry.id) = {}

----------------------------------------------------------------------------
(* C4: index/book agreement, one call at a time.  An id is in the order
   index exactly when one entry with that id is resident in the book, and
   the index holds the side and the level of the queue that holds it. *)
HoldersOf(id) ==
    {<<Buy, r>> : r \in WithId(bids, id)} \cup {<<Sell, r>> : r \in WithId(asks, id)}

C4_IndexBookAgreement ==
    \A id \in OrderIds :
       /\ id \in DOMAIN order_index <=> Cardinality(HoldersOf(id)) = 1
       /\ id \notin DOMAIN order_index => HoldersOf(id) = {}
       /\ id \in DOMAIN order_index =>
             \A h \in HoldersOf(id) : order_index[id] = <<h[1], h[2].level>>

\* after a match that removed one maker and left another one resident
C4_Witness ==
    /\ IsMatch
    /\ DOMAIN order_index # {}
    /\ DOMAIN last.pre.order_index # DOMAIN order_index

----------------------------------------------------------------------------
(* C5: no empty price levels.  Neither map holds a level with an empty
   queue, so the best level of a side holds an order. *)

\* Orderbook::best_bid and best_ask
best_bid(book) ==
    IF DOMAIN book.bids = {} THEN None ELSE Some(to_decimal(MaxOfSet(DOMAIN book.bids)))

best_ask(book) ==
    IF DOMAIN book.asks = {} THEN None ELSE Some(to_decimal(MinOf(DOMAIN book.asks)))

\* Orderbook::spread
spread(book) ==
    IF IsSome(best_bid(book)) /\ IsSome(best_ask(book))
    THEN Some(DecSub(Unwrap(best_ask(book)), Unwrap(best_bid(book))))
    ELSE None

C5_NoEmptyLevels ==
    /\ \A l \in DOMAIN bids : bids[l] # <<>>
    /\ \A l \in DOMAIN asks : asks[l] # <<>>
    /\ IsSome(best_bid(CurrentBook)) =>
          \E r \in ResidentSets(bids) : to_decimal(r.level) = Unwrap(best_bid(CurrentBook))
    /\ IsSome(best_ask(CurrentBook)) =>
          \E r \in ResidentSets(asks) : to_decimal(r.level) = Unwrap(best_ask(CurrentBook))

\* a match emptied one level of a side and another level of it is left
C5_Witness ==
    /\ IsMatch
    /\ \E l \in DOMAIN PreOpp : l \notin DOMAIN PostOpp
    /\ DOMAIN PostOpp # {}

----------------------------------------------------------------------------
(* C6: idempotent cancel.  cancel_order of a resident order returns its
   entry, takes it out of its queue and of the index and lowers order_count
   by one; cancel_order of an id that is not in the index returns None and
   changes nothing; and an id that was cancelled, or never added, is not in
   the index. *)
PreHolders(id) == WithId(last.pre.bids, id) \cup WithId(last.pre.asks, id)

C6_IdempotentCancel ==
    /\ IsCancel =>
          IF last.id \in DOMAIN last.pre.order_index
          THEN /\ IsSome(last.entry)
               /\ Unwrap(last.entry).id = last.id
               /\ \E r \in PreHolders(last.id) : r.entry = Unwrap(last.entry)
               /\ HoldersOf(last.id) = {}
               /\ last.id \notin DOMAIN order_index
               /\ order_count = last.pre.order_count - 1
          ELSE /\ last.entry = None
               /\ CurrentBook = last.pre
    /\ \A id \in OrderIds :
          (id \in cancelled \/ id >= next_id) => id \notin DOMAIN order_index

\* the second cancel_order of an id, another order being resident
C6_Witness ==
    /\ IsCancel
    /\ last.id \in cancelled
    /\ last.entry = None
    /\ DOMAIN order_index # {}

----------------------------------------------------------------------------
(* C8: snapshot correctness.  Per side the snapshot holds at most depth
   levels, bids from the highest price down and asks from the lowest price
   up, these being the best levels of the side, each with the sum of
   remaining_amount of the orders resident at the level; the book is left
   as it was. *)
MinNat(a, b) == IF a <= b THEN a ELSE b

\* rows: one side of the snapshot; m: the side's map; bidSide: TRUE for bids
SnapshotSideCorrect(rows, m, depth, bidSide) ==
    /\ Len(rows) = MinNat(depth, Cardinality(DOMAIN m))
    /\ \A i, j \in 1 .. Len(rows) :
          i < j => IF bidSide THEN DecGt(rows[i].price, rows[j].price)
                   ELSE DecLt(rows[i].price, rows[j].price)
    /\ \A i \in 1 .. Len(rows) :
          \E l \in DOMAIN m :
             /\ DecEq(rows[i].price, Dec(l, 8))
             /\ DecEq(rows[i].total, SumResidents(AtLevel(m, l)))
    /\ \A l \in DOMAIN m :
          (\A i \in 1 .. Len(rows) : ~DecEq(rows[i].price, Dec(l, 8)))
          => \A i \in 1 .. Len(rows) :
                IF bidSide THEN DecLt(Dec(l, 8), rows[i].price)
                ELSE DecGt(Dec(l, 8), rows[i].price)

C8_SnapshotCorrect ==
    IsSnapshot =>
       /\ SnapshotSideCorrect(last.snap.bids, bids, last.depth, TRUE)
       /\ SnapshotSideCorrect(last.snap.asks, asks, last.depth, FALSE)
       /\ CurrentBook = last.pre

\* a snapshot of depth 1 of a book whose bid side has two levels: one is shown
C8_Witness ==
    /\ IsSnapshot
    /\ last.depth = 1
    /\ Cardinality(DOMAIN bids) = 2
    /\ Len(last.snap.bids) = 1

----------------------------------------------------------------------------
(* C9: resident-order amount invariant.  Every entry resident in the book
   has 0 < remaining_amount <= original_amount (the orders enter the book
   with such amounts). *)
C9_ResidentAmounts ==
    \A r \in ResidentSets(bids) \cup ResidentSets(asks) :
       /\ DecGt(r.entry.remaining_amount, DecZero)
       /\ DecLe(r.entry.remaining_amount, r.entry.original_amount)

\* a match took one maker to zero, which is gone, and left another one
\* resident with less than its original amount
C9_Witness ==
    /\ IsMatch
    /\ \E r \in ResidentSets(PreOpp) :
          /\ WithId(PostOpp, r.entry.id) = {}
          /\ DecEq(SumTrades(last.trades, TradesNaming(last.trades, r.entry.id)),
                   r.entry.remaining_amount)
    /\ \E r \in ResidentSets(PostOpp) :
          DecLt(r.entry.remaining_amount, r.entry.original_amount)

----------------------------------------------------------------------------
(* C10: market order exhaustion.  A match_order call with limit_price = None
   and amount > 0 ends with the taker's amount at zero or with the opposite
   side empty: when it returns an amount > 0, no order is resident on the
   opposite side. *)
C10_MarketExhaustion ==
    (IsMatch /\ last.limit = None /\ DecGt(last.amount, DecZero)) =>
       /\ DecEq(last.remaining, DecZero) \/ DOMAIN PostOpp = {}
       /\ DecGt(last.remaining, DecZero) => ResidentSets(PostOpp) = {}

\* a market order that consumed two levels of the opposite side and was not filled
C10_Witness ==
    /\ IsMatch
    /\ last.limit = None
    /\ Cardinality(DOMAIN PreOpp) = 2
    /\ DecGt(last.remaining, DecZero)
    /\ Len(last.trades) = 2

----------------------------------------------------------------------------
(* C7: cancel/match race, under SpecConc.  The order `id` was added before
   the threads started; thread c has finished cancel_order(id) and thread m
   has finished a match_order. *)

\* the id was added before the threads started (no thread added it)
AddedBefore(id) ==
    /\ id < next_id
    /\ \A t \in Threads : ~(th[t].op = "add" /\ th[t].id = id)

FinishedCancel(c, id) == th[c].op = "cancel" /\ th[c].id = id /\ th[c].pc = "done"

FinishedMatch(m) == th[m].op = "match" /\ th[m].pc = "done"

IsResident(id) == WithId(bids, id) \cup WithId(asks, id) # {}

\* the two calls met on the order: the match traded with it, or the cancel
\* found it in the index; no third call cancels the order or traded with it
Raced(c, m, id) ==
    /\ AddedBefore(id)
    /\ FinishedCancel(c, id)
    /\ FinishedMatch(m)
    /\ TradesNaming(th[m].trades, id) # {} \/ idx_taker[id] = c
    /\ \A t \in Threads \ {c, m} :
          /\ ~(th[t].op = "cancel" /\ th[t].id = id)
          /\ TradesNaming(th[t].trades, id) = {}

(* C7 as stated: the operation that removed the id from the order index
   first is the one that took the order out of the book. *)
C7_IndexWinnerTakesOrder ==
    \A id \in OrderIds : \A c, m \in Threads :
       (Raced(c, m, id) /\ book_taker[id] # 0 /\ idx_taker[id] # 0)
       => idx_taker[id] = book_taker[id]

(* C7 as amended: the order is taken out of the book by exactly one of the
   two, the one that removes the entry from its queue under the side's write
   lock, whoever removed the id from the index.  cancel_order returns the
   entry exactly when it took the order out; when the match took it, cancel
   returns None; when the cancel took it, the match traded less than the
   order's amount with it; afterwards the order is neither in the book nor
   in the index. *)
C7_QueueWinnerTakesOrder ==
    \A id \in OrderIds : \A c, m \in Threads :
       Raced(c, m, id) =>
          /\ ~IsResident(id)
          /\ id \notin DOMAIN order_index
          /\ book_taker[id] \in {c, m}
          /\ IsSome(th[c].entry) <=> book_taker[id] = c
          /\ book_taker[id] = m =>
                /\ th[c].entry = None
                /\ TradesNaming(th[m].trades, id) # {}
          /\ book_taker[id] = c =>
                /\ Unwrap(th[c].entry).id = id
                /\ DecLt(SumTrades(th[m].trades, TradesNaming(th[m].trades, id)),
                         Unwrap(th[c].entry).original_amount)

\* the cancel removed the id from the index first, the match holding the
\* lock filled the order and took it out, and the cancel returned None
C7_Witness ==
    \E id \in OrderIds : \E c, m \in Threads :
       /\ Raced(c, m, id)
       /\ idx_taker[id] = c
       /\ book_taker[id] = m
       /\ th[c].entry = None

----------------------------------------------------------------------------
(* MatchingEngine (engine.rs), as section 4.3 describes it: one Orderbook  *)
(* per configured symbol, validation, the order's status, the broadcast of *)
(* TradeEvents and OrderbookUpdates.  The model has one configured symbol. *)

Limit  == "Limit"
Market == "Market"
OrderTypes == {Limit, Market}

\* the configured symbols and the symbols a caller may name
Symbols == {"BTCUSDT"}
SymbolInputs == Symbols \cup {"DOGEUSDT"}

\* MatchingEngine::is_valid_symbol (the variant accepts every symbol)
is_valid_symbol_Any(symbol) == symbol \in SymbolInputs

is_valid_symbol(symbol) == symbol \in Symbols

\* prices and amounts of submitted orders: 1 and 2
EngPrices == {Dec(1, 0), Dec(2, 0)}
EngAmounts == {Dec(1, 0), Dec(2, 0)}

SubmitIds == 1 .. MaxSubmits

\* Result<T, MatchingError>
Ok(v) == [ok |-> TRUE, error |-> "", value |-> Some(v)]
Err(e) == [ok |-> FALSE, error |-> e, value |-> None]

\* MatchResult (types.rs); average_price is an Option<Decimal>, held at the
\* full width of a Decimal
MatchResult(order_id, status, filled_amount, remaining_amount, average_price, trades) ==
    [order_id |-> order_id, status |-> status, filled_amount |-> filled_amount,
     remaining_amount |-> remaining_amount, average_price |-> average_price,
     trades |-> trades]

\* TradeEvent (types.rs) of one TradeExecution
TradeEvent(symbol, side, t) ==
    [symbol |-> symbol, maker_order_id |-> t.maker_order_id,
     taker_order_id |-> t.taker_order_id, side |-> side, price |-> t.price,
     amount |-> t.amount, maker_fee |-> t.maker_fee, taker_fee |-> t.taker_fee]

RECURSIVE SumValue(_)
SumValue(trades) ==
    IF trades = <<>> THEN DecZero
    ELSE DecAdd(DecMul(trades[1].price, trades[1].amount), SumValue(Tail(trades)))

\* the variant reports the price of the last trade
average_price_LastPrice(trades, filled_amount) ==
    IF trades = <<>> THEN None
    ELSE Some(Widen(trades[Len(trades)].price))

\* volume-weighted average fill price of the trades, None without trades:
\* the sum of price * amount over the trades divided by the filled amount,
\* a Decimal division
average_price(trades, filled_amount) ==
    IF trades = <<>> THEN None
    ELSE Some(DecDiv(SumValue(trades), filled_amount))

\* the status of a submitted order after matching left `remaining` of
\* `amount` (section 4.3 names no status for a market order filled in part;
\* PartiallyFilled is taken); the variant never rejects
OrderStatusOf_NoReject(order_type, amount, remaining) ==
    IF DecLe(remaining, DecZero) THEN "Filled"
    ELSE IF DecEq(remaining, amount) THEN "Open" ELSE "PartiallyFilled"

OrderStatusOf(order_type, amount, remaining) ==
    IF order_type = Market
    THEN IF DecEq(remaining, amount) THEN "Rejected"
         ELSE IF DecLe(remaining, DecZero) THEN "Filled" ELSE "PartiallyFilled"
    ELSE IF DecLe(remaining, DecZero) THEN "Filled"
         ELSE IF DecEq(remaining, amount) THEN "Open" ELSE "PartiallyFilled"

\* a limit order's unmatched remainder rests in the book; a market order's
\* is dropped (the variant lets it rest)
Rests_AnyType(order_type, remaining) == DecGt(remaining, DecZero)

Rests(order_type, remaining) == order_type = Limit /\ DecGt(remaining, DecZero)

\* the makers a match took out of the book: they were filled completely
FilledMakers(pre, post) == DOMAIN pre.order_index \ DOMAIN post.order_index

\* MatchingEngine::submit_order: the result, the book afterwards, the
\* TradeEvents and the number of OrderbookUpdates to broadcast
\* submit_order after match_order has returned r: the status, the resting
\* of the remainder, the MatchResult and what is broadcast
AfterMatch(book, r, after, order_id, symbol, side, status, filled) ==
    [res     |-> Ok(MatchResult(order_id, status, filled, r.amount,
                                average_price(r.trades, filled), r.trades)),
     book    |-> after,
     events  |-> [i \in 1 .. Len(r.trades) |-> TradeEvent(symbol, side, r.trades[i])],
     updates |-> IF after.bids # book.bids \/ after.asks # book.asks THEN 1 ELSE 0,
     filled  |-> FilledMakers(book, r.book)
                 \cup (IF status = "Filled" THEN {order_id} ELSE {})]

RestOrder(r, order_id, side, order_type, amount, price) ==
    IF Rests(order_type, r.amount)
    THEN add_order(r.book, OrderEntry(order_id,
                                      IF IsSome(price) THEN Unwrap(price) ELSE DecZero,
                                      amount, r.amount, side))
    ELSE r.book

SubmitMatched(book, r, order_id, symbol, side, order_type, amount, price) ==
    AfterMatch(book, r, RestOrder(r, order_id, side, order_type, amount, price),
               order_id, symbol, side, OrderStatusOf(order_type, amount, r.amount),
               DecSub(amount, r.amount))

\* the variant lets the order rest without matching it
submit_order_Unmatched(book, order_id, symbol, side, order_type, amount, price) ==
    IF ~is_valid_symbol(symbol)
    THEN [res |-> Err("SymbolNotFound"), book |-> book, events |-> <<>>,
          updates |-> 0, filled |-> {}]
    ELSE SubmitMatched(book, [book |-> book, trades |-> <<>>, amount |-> amount],
                  order_id, symbol, side, order_type, amount, price)

submit_order(book, order_id, symbol, side, order_type, amount, price) ==
    IF ~is_valid_symbol(symbol)
    THEN [res |-> Err("SymbolNotFound"), book |-> book, events |-> <<>>,
          updates |-> 0, filled |-> {}]
    ELSE SubmitMatched(book,
                  match_order(book, order_id, side, amount,
                              IF order_type = Limit THEN price ELSE None),
                  order_id, symbol, side, order_type, amount, price)

\* MatchingEngine::cancel_order: Ok(true) when the book held the order
engine_cancel_order(book, symbol, order_id) ==
    IF ~is_valid_symbol(symbol)
    THEN [res |-> Err("SymbolNotFound"), book |-> book, updates |-> 0]
    ELSE LET r == cancel_order(book, order_id)
         IN  [res |-> Ok(IsSome(r.entry)), book |-> r.book,
              updates |-> IF IsSome(r.entry) THEN 1 ELSE 0]

\* MatchingEngine::get_orderbook
get_orderbook(book, symbol, depth) ==
    IF ~is_valid_symbol(symbol) THEN Err("SymbolNotFound")
    ELSE Ok(snapshot(book, depth))

----------------------------------------------------------------------------
(* The engine called directly, one call at a time (SpecEngine), and        *)
(* through OrderFlowOrchestrator (orchestrator.rs) with its persistence    *)
(* worker and its spawned persistence tasks (SpecOrch)                     *)

\* the record of a call that has not returned yet; outbox holds the
\* TradeEvents of a process_order call that are matched and not yet sent
ECall(op, symbol, id, side, order_type, amount, price, depth, res) ==
    [op |-> op, symbol |-> symbol, id |-> id, side |-> side,
     order_type |-> order_type, amount |-> amount, price |-> price,
     depth |-> depth, res |-> res,
     pre |-> CurrentBook, pre_tx |-> trade_tx, pre_btx |-> book_tx,
     outbox |-> None]

\* the text persist_order binds for an OrderStatus of the engine and casts
\* to order_status
StatusText(status) ==
    CASE status = "Open" -> "open"
      [] status = "PartiallyFilled" -> "partially_filled"
      [] status = "Filled" -> "filled"
      [] status = "Cancelled" -> "cancelled"
      [] status = "Rejected" -> "rejected"

\* a row of the orders table: status, amount, filled_amount
Row(status, amount, filled_amount) ==
    [status |-> status, amount |-> amount, filled_amount |-> filled_amount]

\* UPDATE orders SET filled_amount = filled_amount + $1, status = CASE ... WHERE id = $2
UpdateMaker(rows, trade) ==
    IF trade.maker_order_id \in DOMAIN rows
    THEN MapPut(rows, trade.maker_order_id,
                [rows[trade.maker_order_id] EXCEPT
                    !.filled_amount = DecAdd(@, trade.amount),
                    !.status = IF DecGe(DecAdd(rows[trade.maker_order_id].filled_amount,
                                               trade.amount),
                                        rows[trade.maker_order_id].amount)
                               THEN "filled" ELSE "partially_filled"])
    ELSE rows

RECURSIVE UpdateMakers(_, _)
UpdateMakers(rows, trades) ==
    IF trades = <<>> THEN rows
    ELSE UpdateMakers(UpdateMaker(rows, trades[1]), Tail(trades))

\* INSERT INTO orders ... ON CONFLICT (id) DO UPDATE SET status = $6,
\* filled_amount = $9: a row the table holds keeps its other columns
InsertOrder(rows, result, amount) ==
    IF result.order_id \in DOMAIN rows
    THEN MapPut(rows, result.order_id,
                [rows[result.order_id] EXCEPT !.status = StatusText(result.status),
                                              !.filled_amount = result.filled_amount])
    ELSE MapPut(rows, result.order_id,
                Row(StatusText(result.status), amount, result.filled_amount))

\* OrderFlowOrchestrator::persist_order when none of its statements fails:
\* the INSERT, then one UPDATE for the maker of each trade of the result
persist_order(rows, result, amount) ==
    UpdateMakers(InsertOrder(rows, result, amount), result.trades)

\* OrderFlowOrchestrator::update_order_status
update_order_status(rows, order_id, status) ==
    IF order_id \in DOMAIN rows
    THEN MapPut(rows, order_id, [rows[order_id] EXCEPT !.status = status])
    ELSE rows

\* tokio::spawn of the persistence of one order / of one cancellation
\* (done: the number of statements the task has executed)
OrderTask(result, amount) == [kind |-> "order", id |-> result.order_id,
                              result |-> Some(result), amount |-> amount, done |-> 0]
StatusTask(order_id) == [kind |-> "status", id |-> order_id,
                         result |-> None, amount |-> DecZero, done |-> 0]

\* a submission: MatchingEngine::submit_order on the book and its broadcasts
\* (broadcast::Sender::send never waits for a receiver)
DoSubmit(symbol, side, order_type, amount, price) ==
    \E r \in {submit_order(CurrentBook, next_id, symbol, side, order_type, amount, price)} :
        /\ SetBook(r.book)
        /\ trade_tx' = trade_tx \o r.events
        /\ exec' = exec \o r.events
        /\ book_tx' = book_tx + r.updates
        /\ engine_filled' = engine_filled \cup r.filled
        /\ ecall' = Some(ECall("submit", symbol, next_id, side, order_type,
                               amount, price, 0, r.res))
        /\ next_id' = next_id + 1

\* a cancellation: MatchingEngine::cancel_order, its broadcast, and (spawn)
\* the status update OrderFlowOrchestrator::cancel_order starts
DoCancel(symbol, order_id, spawn) ==
    \E r \in {engine_cancel_order(CurrentBook, symbol, order_id)} :
        /\ SetBook(r.book)
        /\ book_tx' = book_tx + r.updates
        /\ worker' = IF spawn /\ r.res.ok /\ Unwrap(r.res.value)
                     THEN [worker EXCEPT !.tasks = @ \cup {StatusTask(order_id)}]
                     ELSE worker
        /\ ecall' = Some(ECall("cancel", symbol, order_id, Buy, Limit,
                               DecZero, None, 0, r.res))

\* MatchingEngine::submit_order, called directly
SubmitOrder ==
    /\ ecall = None
    /\ next_id <= MaxSubmits
    /\ \E symbol \in SymbolInputs, side \in Sides, amount \in EngAmounts :
          \/ \E p \in EngPrices : DoSubmit(symbol, side, Limit, amount, Some(p))
          \/ DoSubmit(symbol, side, Market, amount, None)
    /\ UNCHANGED <<worker, db, req, conv>>
    /\ UNCHANGED <<seqvars, concvars, balances, limiter, flow>>

\* MatchingEngine::cancel_order, called directly
EngineCancel ==
    /\ ecall = None
    /\ \E symbol \in SymbolInputs, order_id \in SubmitIds :
          DoCancel(symbol, order_id, FALSE)
    /\ UNCHANGED <<next_id, trade_tx, exec, engine_filled, db, req, conv>>
    /\ UNCHANGED <<seqvars, concvars, balances, limiter, flow>>

\* MatchingEngine::get_orderbook (OrderFlowOrchestrator::get_orderbook passes it on)
GetOrderbook ==
    /\ ecall = None
    /\ \E symbol \in SymbolInputs, depth \in 0 .. MaxDepth :
          ecall' = Some(ECall("get_orderbook", symbol, 0, Buy, Limit, DecZero, None,
                              depth, get_orderbook(CurrentBook, symbol, depth)))
    /\ UNCHANGED <<bids, asks, order_index, order_count, last_trade_price, next_id>>
    /\ UNCHANGED <<trade_tx, book_tx, worker, db, req, conv, exec, engine_filled>>
    /\ UNCHANGED <<seqvars, concvars, balances, limiter, flow>>

\* the call returns to its caller
ReturnE ==
    /\ ecall # None
    /\ Unwrap(ecall).outbox = None
    /\ ecall' = None
    /\ UNCHANGED <<bids, asks, order_index, order_count, last_trade_price, next_id>>
    /\ UNCHANGED <<trade_tx, book_tx, worker, db, req, conv, exec, engine_filled>>
    /\ UNCHANGED <<seqvars, concvars, balances, limiter, flow>>

NextEngine == SubmitOrder \/ EngineCancel \/ GetOrderbook \/ ReturnE

SpecEngine == Init /\ [][NextEngine]_vars

\* the orders handed to the orchestrator: limit orders at price 1, to sell 2
\* or to buy 1
OrchPrice == Dec(1, 0)
OrchOrders == {[side |-> Sell, amount |-> Dec(2, 0)], [side |-> Buy, amount |-> Dec(1, 0)]}

\* OrderFlowOrchestrator::process_order, for limit orders on the configured
\* symbol, up to the end of the matching inside engine.submit_order: the
\* persistence worker runs concurrently with the rest of the call
ProcessOrder ==
    /\ ecall = None
    /\ next_id <= MaxSubmits
    /\ \E symbol \in Symbols, o \in OrchOrders :
        \E r \in {submit_order(CurrentBook, next_id, symbol, o.side, Limit,
                                o.amount, Some(OrchPrice))} :
            /\ SetBook(r.book)
            /\ exec' = exec \o r.events
            /\ book_tx' = book_tx + r.updates
            /\ engine_filled' = engine_filled \cup r.filled
            /\ ecall' = Some([ECall("submit", symbol, next_id, o.side, Limit,
                                    o.amount, Some(OrchPrice), 0, r.res)
                                  EXCEPT !.outbox = Some(r.events)])
            /\ next_id' = next_id + 1
    /\ UNCHANGED <<trade_tx, worker, db, req, conv>>
    /\ UNCHANGED <<seqvars, concvars, balances, limiter, flow>>

\* tokio::spawn of persist_order for an accepted order: the call does not
\* wait for the task.  The variant starts the task only when no other
\* persistence is in progress
SpawnOrder_Serial(res, amount) ==
    /\ worker.busy = None /\ worker.tasks = {}
    /\ worker' = IF res.ok
                 THEN [worker EXCEPT !.tasks = @ \cup {OrderTask(Unwrap(res.value), amount)}]
                 ELSE worker

SpawnOrder(res, amount) ==
    worker' = IF res.ok
              THEN [worker EXCEPT !.tasks = @ \cup {OrderTask(Unwrap(res.value), amount)}]
              ELSE worker

\* the rest of process_order: the engine sends the TradeEvents of the match
\* (send never waits, whatever the receivers have consumed), then
\* process_order spawns the persistence of the order
Publish ==
    /\ ecall # None
    /\ Unwrap(ecall).outbox # None
    /\ trade_tx' = trade_tx \o Unwrap(Unwrap(ecall).outbox)
    /\ SpawnOrder(Unwrap(ecall).res, Unwrap(ecall).amount)
    /\ ecall' = Some([Unwrap(ecall) EXCEPT !.outbox = None])
    /\ UNCHANGED <<bids, asks, order_index, order_count, last_trade_price, next_id>>
    /\ UNCHANGED <<book_tx, db, req, conv, exec, engine_filled>>
    /\ UNCHANGED <<seqvars, concvars, balances, limiter, flow>>

\* OrderFlowOrchestrator::cancel_order
OrchCancel ==
    /\ ecall = None
    /\ \E symbol \in Symbols, order_id \in SubmitIds :
          DoCancel(symbol, order_id, TRUE)
    /\ UNCHANGED <<next_id, trade_tx, exec, engine_filled, db, req, conv>>
    /\ UNCHANGED <<seqvars, concvars, balances, limiter, flow>>

\* the loop of start_persistence_worker after rx.recv() returned, `sent`
\* events having been broadcast so far: Ok(trade) goes to persist_trade,
\* Lagged(n) is logged and the loop goes on from the oldest event the channel
\* still holds.  The variant goes on from the newest event
Received_SkipAll(w, sent) ==
    IF sent - w.pos > ChanCap
    THEN [w EXCEPT !.pos = sent, !.lagged = @ + (sent - w.pos)]
    ELSE [w EXCEPT !.pos = @ + 1, !.busy = Some(w.pos + 1)]

Received(w, sent) ==
    IF sent - w.pos > ChanCap
    THEN [w EXCEPT !.pos = sent - ChanCap, !.lagged = @ + (sent - w.pos - ChanCap)]
    ELSE [w EXCEPT !.pos = @ + 1, !.busy = Some(w.pos + 1)]

\* the worker's rx.recv(): the next TradeEvent, or Lagged(n) when more than
\* the channel's capacity is waiting (the receiver then skips to the oldest
\* event the channel still holds)
WorkerRecv ==
    /\ ~worker.stopped
    /\ worker.busy = None
    /\ worker.pos < Len(trade_tx)
    /\ worker' = Received(worker, Len(trade_tx))
    /\ UNCHANGED <<bids, asks, order_index, order_count, last_trade_price, next_id>>
    /\ UNCHANGED <<ecall, trade_tx, book_tx, db, req, conv, exec, engine_filled>>
    /\ UNCHANGED <<seqvars, concvars, balances, limiter, flow>>

\* what the worker does with the outcome of persist_trade: `persisted` and
\* `failed` list the positions of the events it handled (a failure is one
\* line of the error log); the variant tries a failed event again
AfterPersist_Retry(w, ok) ==
    IF ok
    THEN [w EXCEPT !.busy = None, !.persisted = Append(@, Unwrap(w.busy))]
    ELSE [w EXCEPT !.failed = Append(@, Unwrap(w.busy))]

AfterPersist(w, ok) ==
    IF ok
    THEN [w EXCEPT !.busy = None, !.persisted = Append(@, Unwrap(w.busy))]
    ELSE [w EXCEPT !.busy = None, !.failed = Append(@, Unwrap(w.busy))]

\* one call of PositionService::increase_position made for the event at
\* position `event` of the trade channel
PositionCall(event, role, side) == [event |-> event, role |-> role, side |-> side]

\* the parties of a trade that have a referrer (users JOIN referral_codes)
Referred == {"maker"}

\* one referral_earnings row, with a fresh id
Earning(event, referee) == [trade_id |-> event, referee |-> referee]

\* a call of persist_trade goes on with the statement `pc`, or has returned
\* ("Ok", "Err")
Goes(w, c, pc) == [w |-> w, c |-> [c EXCEPT !.pc = pc]]

\* the statement that follows the two leverage lookups: increase_position
\* for the maker if its order row was found, else for the taker if its row
\* was found, else the lookup of the maker's referrer
AfterLeverage(c, role) ==
    IF role = "maker" /\ c.maker_leverage THEN "maker_position"
    ELSE IF c.taker_leverage THEN "taker_position"
    ELSE "maker_referrer"

\* persist_trade, one awaited statement: the call `c` of the event at
\* position `event` executes the statement c.pc on the tables `w` and on
\* the orders table `rows`, with the outcome Ok or Err.  An Err of one of
\* the statements followed by `?` ends the call; an Err of
\* increase_position is logged and the call goes on
persist_trade(w, c, rows, trade, event, ok) ==
    CASE c.pc = "trades" ->
            \* INSERT INTO trades ... ON CONFLICT (id, created_at) DO NOTHING
            IF ok THEN Goes([w EXCEPT !.trades = @ \cup {event}], c, "maker_leverage")
            ELSE Goes(w, c, "Err")
      [] c.pc = "maker_leverage" ->
            \* SELECT leverage FROM orders WHERE id = maker_order_id
            IF ok THEN Goes(w, [c EXCEPT !.maker_leverage = trade.maker_order_id \in DOMAIN rows],
                            "taker_leverage")
            ELSE Goes(w, c, "Err")
      [] c.pc = "taker_leverage" ->
            \* SELECT leverage FROM orders WHERE id = taker_order_id
            IF ok THEN Goes(w, [c EXCEPT !.taker_leverage = trade.taker_order_id \in DOMAIN rows],
                            AfterLeverage([c EXCEPT !.taker_leverage =
                                                        trade.taker_order_id \in DOMAIN rows],
                                          "maker"))
            ELSE Goes(w, c, "Err")
      [] c.pc = "maker_position" ->
            Goes([w EXCEPT !.positions =
                              Append(@, PositionCall(event, "maker",
                                                     IF trade.side = Buy THEN "Short" ELSE "Long"))],
                 c, AfterLeverage(c, "taker"))
      [] c.pc = "taker_position" ->
            Goes([w EXCEPT !.positions =
                              Append(@, PositionCall(event, "taker",
                                                     IF trade.side = Buy THEN "Long" ELSE "Short"))],
                 c, "maker_referrer")
      [] c.pc = "maker_referrer" ->
            \* SELECT ... FROM users u JOIN referral_codes rc ... (the maker)
            IF ok THEN Goes(w, c, IF "maker" \in Referred THEN "maker_earning"
                                  ELSE "taker_referrer")
            ELSE Goes(w, c, "Err")
      [] c.pc = "maker_earning" ->
            \* INSERT INTO referral_earnings (the maker's referrer)
            IF ok THEN Goes([w EXCEPT !.earnings = Append(@, Earning(event, "maker"))],
                            c, "taker_referrer")
            ELSE Goes(w, c, "Err")
      [] c.pc = "taker_referrer" ->
            \* SELECT ... FROM users u JOIN referral_codes rc ... (the taker)
            IF ok THEN Goes(w, c, IF "taker" \in Referred THEN "taker_earning" ELSE "Ok")
            ELSE Goes(w, c, "Err")
      [] c.pc = "taker_earning" ->
            \* INSERT INTO referral_earnings (the taker's referrer)
            IF ok THEN Goes([w EXCEPT !.earnings = Append(@, Earning(event, "taker"))], c, "Ok")
            ELSE Goes(w, c, "Err")

Returned(c) == c.pc \in {"Ok", "Err"}

\* the worker inside persist_trade(&pool, &trade).await: the next awaited
\* statement of the call completes; the call returns after its last
\* statement or with the first Err
WorkerPersist ==
    /\ worker.busy # None
    /\ \E ok \in BOOLEAN :
          \E r \in {persist_trade(worker, worker.call, db, trade_tx[Unwrap(worker.busy)],
                                  Unwrap(worker.busy), ok)} :
             worker' = IF Returned(r.c)
                       THEN [AfterPersist(r.w, r.c.pc = "Ok") EXCEPT !.call = NewCall]
                       ELSE [r.w EXCEPT !.call = r.c]
    /\ UNCHANGED <<bids, asks, order_index, order_count, last_trade_price, next_id>>
    /\ UNCHANGED <<ecall, trade_tx, book_tx, db, req, conv, exec, engine_filled>>
    /\ UNCHANGED <<seqvars, concvars, balances, limiter, flow>>

\* the statement a spawned persistence task executes next: the INSERT of
\* persist_order and then the UPDATE of the maker of each trade, or the
\* UPDATE of update_order_status
TaskStatement(rows, task) ==
    IF task.kind = "status" THEN update_order_status(rows, task.id, "cancelled")
    ELSE IF task.done = 0 THEN InsertOrder(rows, Unwrap(task.result), task.amount)
    ELSE UpdateMaker(rows, Unwrap(task.result).trades[task.done])

\* the number of statements of a task
Statements(task) ==
    IF task.kind = "status" THEN 1 ELSE 1 + Len(Unwrap(task.result).trades)

\* a spawned persistence task: its next awaited statement completes.  With
\* Err the task ends (the Err is written to the log, what the earlier
\* statements wrote stays); with Ok it goes on, and ends after its last
\* statement
TaskDone ==
    /\ \E task \in worker.tasks, ok \in BOOLEAN :
          /\ worker' = [worker EXCEPT
                           !.tasks = (@ \ {task})
                                     \cup (IF ok /\ task.done + 1 < Statements(task)
                                           THEN {[task EXCEPT !.done = @ + 1]} ELSE {})]
          /\ db' = IF ok THEN TaskStatement(db, task) ELSE db
    /\ UNCHANGED <<bids, asks, order_index, order_count, last_trade_price, next_id>>
    /\ UNCHANGED <<ecall, trade_tx, book_tx, req, conv, exec, engine_filled>>
    /\ UNCHANGED <<seqvars, concvars, balances, limiter, flow>>

\* the loop of the trade persistence worker started in main after
\* trade_receiver.recv() returned: `while let Ok(trade_event)` goes on with
\* an event and ends with any Err, Lagged(n) included
MainReceived(w, sent) ==
    IF sent - w.pos > ChanCap
    THEN [w EXCEPT !.lagged = @ + (sent - w.pos - ChanCap), !.stopped = TRUE]
    ELSE [w EXCEPT !.pos = @ + 1, !.busy = Some(w.pos + 1)]

\* trade_receiver.recv() of the worker started in main
MainRecv ==
    /\ ~worker.stopped
    /\ worker.busy = None
    /\ worker.pos < Len(trade_tx)
    /\ worker' = MainReceived(worker, Len(trade_tx))
    /\ UNCHANGED <<bids, asks, order_index, order_count, last_trade_price, next_id>>
    /\ UNCHANGED <<ecall, trade_tx, book_tx, db, req, conv, exec, engine_filled>>
    /\ UNCHANGED <<seqvars, concvars, balances, limiter, flow>>

NextOrch ==
    ProcessOrder \/ Publish \/ OrchCancel \/ ReturnE \/ WorkerRecv \/ WorkerPersist
    \/ TaskDone

SpecOrch == Init /\ [][NextOrch]_vars

\* the engine as main runs it: the handlers call submit_order, the worker
\* started in main persists the TradeEvents
NextMain == SubmitOrder \/ ReturnE \/ MainRecv \/ WorkerPersist

SpecMain == Init /\ [][NextMain]_vars

----------------------------------------------------------------------------
(* Vocabulary of the engine's properties *)

\* the completed call of the engine that has not returned yet
EC == Unwrap(ecall)

IsSubmitCall == ecall # None /\ EC.op = "submit"

\* the MatchResult of a submit_order call that returned Ok
ER == Unwrap(EC.res.value)

\* the sum of the amounts of the trades of the call: what was matched
Matched == SumTrades(ER.trades, AllTrades(ER.trades))

\* the residents of the book that carry the id
ResidentsOf(id) == WithId(bids, id) \cup WithId(asks, id)

\* the taker's own side of the book before the call with `entries` added
\* at the tail of the level of `price`
OwnSidePlus(entry) ==
    PushBack(SideMap(EC.pre, EC.side), from_decimal(entry.price), entry)

BroadcastNothing == trade_tx = EC.pre_tx /\ book_tx = EC.pre_btx

----------------------------------------------------------------------------
(* C11: outcome of a limit order.  After submit_order of a Limit order with
   amount A on a configured symbol: the status is Filled when the trades sum
   to A, and the order is not in the book; PartiallyFilled when the sum is
   between 0 and A, and Open when it is 0, and in both cases the taker's side
   of the book is the side before the call with exactly one entry more, of the
   order's id, side and price, with remaining_amount = A - sum. *)
C11_LimitOutcome ==
    (IsSubmitCall /\ EC.order_type = Limit /\ is_valid_symbol(EC.symbol)) =>
       /\ EC.res.ok
       /\ LET A == EC.amount
              rest == OrderEntry(EC.id, Unwrap(EC.price), A, DecSub(A, Matched), EC.side)
          IN  /\ DecEq(Matched, A) =>
                    /\ ER.status = "Filled"
                    /\ ResidentsOf(EC.id) = {}
                    /\ EC.id \notin DOMAIN order_index
                    /\ SideMap(CurrentBook, EC.side) = SideMap(EC.pre, EC.side)
              /\ (DecGt(Matched, DecZero) /\ DecLt(Matched, A)) =>
                    /\ ER.status = "PartiallyFilled"
                    /\ SideMap(CurrentBook, EC.side) = OwnSidePlus(rest)
                    /\ Cardinality(ResidentsOf(EC.id)) = 1
              /\ DecEq(Matched, DecZero) =>
                    /\ ER.status = "Open"
                    /\ SideMap(CurrentBook, EC.side) = OwnSidePlus(rest)
                    /\ Cardinality(ResidentsOf(EC.id)) = 1
                    /\ DecEq(rest.remaining_amount, A)

\* a limit order of amount 2 that matched 1 and rests with 1, behind an
\* older order of its own side
C11_Witness ==
    /\ IsSubmitCall /\ EC.order_type = Limit /\ EC.res.ok
    /\ ER.status = "PartiallyFilled"
    /\ DecEq(EC.amount, Dec(2, 0)) /\ DecEq(Matched, Dec(1, 0))
    /\ ResidentSets(SideMap(EC.pre, EC.side)) # {}
    /\ \E r \in ResidentsOf(EC.id) : DecEq(r.entry.remaining_amount, Dec(1, 0))

----------------------------------------------------------------------------
(* C12: market order without liquidity.  After submit_order of a Market
   order on a configured symbol whose opposite side was empty: the status is
   Rejected, there are no trades, the filled amount is zero, the remaining
   amount is the submitted amount, and the book is as before the call. *)
C12_MarketNoLiquidity ==
    (IsSubmitCall /\ EC.order_type = Market /\ is_valid_symbol(EC.symbol)
       /\ ResidentSets(SideMap(EC.pre, Opposite(EC.side))) = {}) =>
       /\ EC.res.ok
       /\ ER.status = "Rejected"
       /\ ER.trades = <<>>
       /\ DecEq(ER.filled_amount, DecZero)
       /\ DecEq(ER.remaining_amount, EC.amount)
       /\ CurrentBook = EC.pre
       /\ trade_tx = EC.pre_tx

\* a market buy of 2 rejected while bids rest in the book
C12_Witness ==
    /\ IsSubmitCall /\ EC.order_type = Market /\ EC.side = Buy /\ EC.res.ok
    /\ EC.pre.asks = EmptyMap
    /\ EC.pre.bids # EmptyMap
    /\ DecEq(EC.amount, Dec(2, 0))
    /\ ER.status = "Rejected"

----------------------------------------------------------------------------
(* C13: market orders never rest.  After submit_order of a Market order on a
   configured symbol, whatever it matched: no entry of the book carries the
   order's id, the id is not in the order index, and the taker's own side of
   the book is as before the call. *)
C13_MarketNeverRests ==
    (IsSubmitCall /\ EC.order_type = Market /\ is_valid_symbol(EC.symbol)) =>
       /\ ResidentsOf(EC.id) = {}
       /\ EC.id \notin DOMAIN order_index
       /\ SideMap(CurrentBook, EC.side) = SideMap(EC.pre, EC.side)

\* a market order of 2 that matched 1, with orders resting on its own side
C13_Witness ==
    /\ IsSubmitCall /\ EC.order_type = Market /\ EC.res.ok
    /\ Len(ER.trades) = 1
    /\ DecEq(ER.remaining_amount, Dec(1, 0))
    /\ ER.status = "PartiallyFilled"
    /\ SideMap(EC.pre, EC.side) # EmptyMap

----------------------------------------------------------------------------
(* C14: an unknown symbol has no side effect.  submit_order, cancel_order
   and get_orderbook with a symbol outside the configured set return
   SymbolNotFound; the book is as before the call and neither a TradeEvent
   nor an OrderbookUpdate was broadcast. *)
C14_UnknownSymbol ==
    (ecall # None /\ EC.symbol \notin Symbols) =>
       /\ ~EC.res.ok
       /\ EC.res.error = "SymbolNotFound"
       /\ CurrentBook = EC.pre
       /\ BroadcastNothing

\* a market order on an unknown symbol while the book of the configured
\* symbol holds orders on the opposite side
C14_Witness ==
    /\ IsSubmitCall
    /\ EC.symbol \notin Symbols
    /\ EC.order_type = Market
    /\ ResidentSets(SideMap(EC.pre, Opposite(EC.side))) # {}
    /\ EC.res.error = "SymbolNotFound"

----------------------------------------------------------------------------
(* C16: matching is never stalled by consumers.  A call of process_order or
   cancel_order that has started can always take its next step, up to its
   return to the caller: it sends its TradeEvents, spawns its persistence
   and returns whatever the number of TradeEvents the persistence worker
   has not received, and whether or not a persist_trade or a spawned
   persistence task is in progress or has failed. *)
C16_NeverStalled == ecall # None => ENABLED (Publish \/ ReturnE)

\* a process_order call that traded and completed while the channel was
\* full of TradeEvents the worker had not received and the persistence
\* task of an earlier order was still running
C16_Witness ==
    /\ IsSubmitCall /\ EC.res.ok /\ EC.outbox = None
    /\ Len(trade_tx) > Len(EC.pre_tx)
    /\ Len(EC.pre_tx) - worker.pos >= ChanCap
    /\ Cardinality(worker.tasks) >= 2

----------------------------------------------------------------------------
(* C18: a persistence failure does not undo a match.  The step in which
   persist_trade fails adds one line to the worker's log and leaves the book,
   the result held by the caller, the two channels and the orders table as
   they are; the worker does not take the event again and is ready for the
   next one.  The step in which a spawned persistence task ends, with or
   without a failure, leaves the book, the result and the channels as they
   are and the task is not started again.  A worker that is not inside
   persist_trade can receive whenever an event it has not received exists. *)
PersistFails ==
    /\ worker.busy # None
    /\ worker'.failed # worker.failed

TaskEnds == worker'.tasks # worker.tasks /\ worker'.tasks \subseteq worker.tasks

MatchUntouched ==
    /\ UNCHANGED <<bids, asks, order_index, order_count, last_trade_price>>
    /\ UNCHANGED <<ecall, trade_tx, book_tx, exec, engine_filled>>

C18_FailureOnlyLogged ==
    /\ [][PersistFails =>
            /\ MatchUntouched
            /\ db' = db
            /\ worker' = [worker EXCEPT !.busy = None,
                                        !.failed = Append(@, Unwrap(worker.busy)),
                                        !.call = NewCall]
            /\ \A i \in 1 .. Len(worker.failed) : worker.failed[i] # Unwrap(worker.busy)]_vars
    /\ [][TaskEnds =>
            /\ MatchUntouched
            /\ worker' = [worker EXCEPT !.tasks = worker'.tasks]
            /\ Cardinality(worker'.tasks) = Cardinality(worker.tasks) - 1]_vars
    /\ []((worker.busy = None /\ worker.pos < Len(trade_tx)) => ENABLED WorkerRecv)

\* the persist_trade of the first TradeEvent failed, the second TradeEvent
\* was persisted, and the book still shows the fills of both
C18_Witness ==
    /\ Len(trade_tx) = 2
    /\ worker.failed = <<1>>
    /\ worker.persisted = <<2>>
    /\ engine_filled # {}

----------------------------------------------------------------------------
(* C20: fees.  Every trade of a match_order call has
   maker_fee = amount * price * 0.0002 and taker_fee = amount * price * 0.0005
   for the trade's own amount and price, as exact decimal values; a fill of
   amount 1 at price 100 has maker_fee 0.02 and taker_fee 0.05. *)

\* a and b are the same number: the mantissa of the smaller scale is brought
\* to the larger scale
SameValue(a, b) ==
    IF a.s >= b.s THEN a.m = b.m * Pow10(a.s - b.s)
    ELSE a.m * Pow10(b.s - a.s) = b.m

\* amount * price * k / 10^4, from the mantissas and the scales
TenThousandths(t, k) == Dec(t.amount.m * t.price.m * k, t.amount.s + t.price.s + 4)

OneAtHundred ==
    TradeExecution(OrderEntry(1, Dec(100, 0), Dec(1, 0), Dec(1, 0), Sell), 2, Dec(1, 0))

C20_Fees ==
    /\ \A i \in 1 .. Len(last.trades) :
          /\ SameValue(last.trades[i].maker_fee, TenThousandths(last.trades[i], 2))
          /\ SameValue(last.trades[i].taker_fee, TenThousandths(last.trades[i], 5))
    /\ SameValue(OneAtHundred.maker_fee, Dec(2, 2))
    /\ SameValue(OneAtHundred.taker_fee, Dec(5, 2))

\* a match with two trades at different prices, one of them a partial fill
\* of its maker
C20_Witness ==
    /\ IsMatch
    /\ Len(last.trades) = 2
    /\ ~SameValue(last.trades[1].price, last.trades[2].price)
    /\ \E r \in ResidentSets(PostOpp) : TradesNaming(last.trades, r.entry.id) # {}
    /\ \A i \in 1 .. 2 : last.trades[i].maker_fee.m > 0 /\ last.trades[i].taker_fee.m > 0

----------------------------------------------------------------------------
(* PriceLevel::from_decimal and to_decimal applied to pairs of prices *)

InitPrice ==
    /\ InitState
    /\ \E p1 \in WidePrices, p2 \in WidePrices :
          conv = Conv("start", p1, p2, WideZero, WideZero, NoConv.back1, NoConv.back2)

\* PriceLevel::from_decimal of both prices
Encode ==
    /\ conv.pc = "start"
    /\ conv' = [conv EXCEPT !.pc = "encoded",
                            !.l1 = from_decimal_i64(conv.p1),
                            !.l2 = from_decimal_i64(conv.p2)]
    /\ UNCHANGED <<bids, asks, order_index, order_count, last_trade_price, next_id>>
    /\ UNCHANGED <<ecall, trade_tx, book_tx, worker, db, req, exec, engine_filled>>
    /\ UNCHANGED <<seqvars, concvars, balances, limiter, flow>>

\* PriceLevel::to_decimal of both levels
Decode ==
    /\ conv.pc = "encoded"
    /\ conv' = [conv EXCEPT !.pc = "decoded",
                            !.back1 = to_decimal_i64(conv.l1),
                            !.back2 = to_decimal_i64(conv.l2)]
    /\ UNCHANGED <<bids, asks, order_index, order_count, last_trade_price, next_id>>
    /\ UNCHANGED <<ecall, trade_tx, book_tx, worker, db, req, exec, engine_filled>>
    /\ UNCHANGED <<seqvars, concvars, balances, limiter, flow>>

NextPrice == Encode \/ Decode

SpecPrice == InitPrice /\ [][NextPrice]_vars

\* the price has at most 8 fractional digits
AtMost8(p) == WideDecNormalize(p).s <= 8

\* price * 10^8 of a price of at most 8 fractional digits
Times10To8(p) ==
    LET n == WideDecNormalize(p) IN Wide(n.neg, MagMulPow10(n.mag, 8 - n.s))

\* -2^63 <= price * 10^8 < 2^63
FitsI64(p) ==
    /\ WideCmp(Times10To8(p), TwoTo63) < 0
    /\ WideCmp(Times10To8(p), WideNeg(TwoTo63)) >= 0

RoundTrip == WideDecCmp(conv.back1, conv.p1) = 0 /\ WideDecCmp(conv.back2, conv.p2) = 0

OrderKept == (WideDecCmp(conv.p1, conv.p2) < 0) <=> (WideCmp(conv.l1, conv.l2) < 0)

(* C19 as stated: PriceLevel is an order-preserving exact encoding.  For
   every price of at most 8 fractional digits, to_decimal(from_decimal(p)) = p,
   and of two such prices p1 < p2 exactly when
   from_decimal(p1) < from_decimal(p2). *)
C19_ExactOrderPreserving ==
    (conv.pc = "decoded" /\ AtMost8(conv.p1) /\ AtMost8(conv.p2))
        => RoundTrip /\ OrderKept

(* C19, amended: the same for the prices of at most 8 fractional digits with
   -2^63 <= p * 10^8 < 2^63, the range of the i64 a PriceLevel holds. *)
C19_ExactWithinI64 ==
    (conv.pc = "decoded" /\ AtMost8(conv.p1) /\ AtMost8(conv.p2)
         /\ FitsI64(conv.p1) /\ FitsI64(conv.p2))
        => RoundTrip /\ OrderKept

\* 97500.12345678 and the largest price that fits, 92233720368.54775807,
\* encoded and decoded
C19_Witness ==
    /\ conv.pc = "decoded"
    /\ conv.p1 = WideDec(FALSE, <<9, 7500, 1234, 5678>>, 8)
    /\ conv.l1 = Wide(FALSE, Limbs(<<9, 7500, 1234, 5678>>))
    /\ conv.l2 = WideAdd(TwoTo63, Wide(TRUE, <<1>>))
    /\ FitsI64(conv.p1) /\ FitsI64(conv.p2)
    /\ WideDecCmp(conv.p1, conv.p2) < 0

----------------------------------------------------------------------------
(* The HTTP handlers of api/handlers/order.rs on the engine (SpecFlow):      *)
(* create_order and cancel_order requests run concurrently on the worker    *)
(* threads of the runtime, each statement on the orders table or on the    *)
(* engine a step of its own; with them the other writers of the orders     *)
(* and balances tables: open_position and close_position (position.rs),    *)
(* claim_earnings (referral.rs) and settle_user_shares (settlement.rs)     *)

\* a request in flight: the handler, its position, the order it is about,
\* the result of its call on the engine and the TradeEvents not yet sent;
\* for a cancellation the columns of the row it read, whether it is a
\* batch_cancel, and the order ids the batch has still to go through
Request(op, pc, id, side, amount, res, outbox) ==
    [op |-> op, pc |-> pc, id |-> id, side |-> side, amount |-> amount,
     res |-> res, outbox |-> outbox,
     order_type |-> Limit, price |-> None, leverage |-> 1,
     filled_amount |-> DecZero, margin |-> DecZero,
     batch |-> FALSE, rest |-> <<>>]

DropReq(i) == SubSeq(req, 1, i - 1) \o SubSeq(req, i + 1, Len(req))

\* the text sqlx sends for a models::OrderStatus and accepts for one: the
\* derive has rename_all = "lowercase", the name of the variant in lower
\* case, without a separator between its words
SqlxText(status) ==
    CASE status = "Pending" -> "pending"
      [] status = "Open" -> "open"
      [] status = "PartiallyFilled" -> "partiallyfilled"
      [] status = "Filled" -> "filled"
      [] status = "Cancelled" -> "cancelled"
      [] status = "Rejected" -> "rejected"

\* the labels of the order_status type of the database, those the SQL text
\* of the program casts to it or writes to the column
OrderStatusLabels ==
    {"pending", "open", "partially_filled", "filled", "cancelled", "rejected"}

\* a status column read into models::Order: the variant that has the text,
\* or None for a text no variant has, which makes the read an Err
SqlxDecode(text) ==
    LET found == {v \in {"Pending", "Open", "PartiallyFilled", "Filled", "Cancelled",
                         "Rejected"} : SqlxText(v) = text}
    IN  IF found = {} THEN None ELSE Some(CHOOSE v \in found : TRUE)

\* the statuses with which cancel_order goes on
Cancellable == {"Open", "PartiallyFilled", "Pending"}

\* cancel_order: the row is read into models::Order (an Err answers the
\* request with ORDER_FETCH_FAILED) and has one of the three statuses
Cancels(text) ==
    IsSome(SqlxDecode(text)) /\ Unwrap(SqlxDecode(text)) \in Cancellable

\* batch_cancel: the SELECT ... AND status IN ('open', 'partially_filled',
\* 'pending') finds the row and the row is read into models::Order (an Err
\* counts as no row: .ok().flatten())
BatchFinds(text) ==
    text \in {"open", "partially_filled", "pending"} /\ IsSome(SqlxDecode(text))

\* the orders of the requests: the limit orders of OrchOrders and a market
\* order, which has no price
FlowOrders ==
    {[side |-> o.side, order_type |-> Limit, amount |-> o.amount, price |-> Some(OrchPrice)] :
        o \in OrchOrders}
    \cup {[side |-> Buy, order_type |-> Market, amount |-> Dec(1, 0), price |-> None]}

FlowLeverages == {2}

\* price_feed_service.get_mark_price(symbol)
MarkPrice == Some(OrchPrice)

\* what a SELECT on the positions table finds for the user and the symbol:
\* nothing, or an open long position of 1 or of 2 (tokens, and USD at the
\* price of the orders).  The table is written by the position service
PositionRow(side, size) == [side |-> side, size |-> size, size_in_usd |-> size]
Positions ==
    {None, Some(PositionRow("long", Dec(1, 0))), Some(PositionRow("long", Dec(2, 0)))}

\* Decimal / Decimal::from(leverage), for a leverage that divides 10
DecDivInt(a, k) ==
    IF a.m % k = 0 THEN Dec(a.m \div k, a.s) ELSE Dec((a.m * 10) \div k, a.s + 1)

\* calculate_required_margin, and the same calculation of cancel_order and
\* batch_cancel: notional value over leverage plus the buffer of 0.5%
calculate_required_margin(amount, price, leverage) ==
    DecMul(DecDivInt(DecMul(amount, price), leverage), Dec(1005, 3))

\* calculate_required_margin_with_user: with an open position of the
\* opposite side, the fees only for an order within the position and the
\* margin of the excess for a larger one; else the margin of the order
calculate_required_margin_with_user(side, amount, price, leverage, position) ==
    IF DecEq(price, DecZero) THEN calculate_required_margin(amount, price, leverage)
    ELSE IF IsSome(position)
            /\ Unwrap(position).side = (IF side = Buy THEN "short" ELSE "long")
    THEN IF DecLe(DecMul(amount, price), Unwrap(position).size_in_usd)
         THEN DecMul(DecMul(amount, price), Dec(5, 3))
         ELSE calculate_required_margin(
                  DecSub(DecMul(amount, price), Unwrap(position).size_in_usd),
                  Dec(1, 0), leverage)
    ELSE calculate_required_margin(amount, price, leverage)

\* create_order, lines 209-237: the order closes the position found, the
\* balance check is skipped
should_skip_balance_check(side, amount, position) ==
    /\ IsSome(position)
    /\ \/ side = Buy /\ Unwrap(position).side = "short"
       \/ side = Sell /\ Unwrap(position).side = "long"
    /\ DecLe(amount, Unwrap(position).size)

\* ... DO UPDATE SET available = balances.available - $3, frozen = balances.frozen + $3
Freeze(b, order_id, margin) ==
    [available |-> DecSub(b.available, margin), frozen |-> DecAdd(b.frozen, margin),
     ledger |-> MapPut(b.ledger, order_id,
                       [frozen |-> margin, times |-> 0, blind |-> 0,
                        returned |-> DecZero])]

\* UPDATE balances SET available = available + $1, frozen = frozen - $1.
\* The ledger counts the statements that move an amount, and among them
\* the blind ones: those of a cancel request to which the engine had not
\* answered Ok(true)
Unfreeze(b, order_id, margin, blind) ==
    [available |-> DecAdd(b.available, margin), frozen |-> DecSub(b.frozen, margin),
     ledger |-> MapPut(b.ledger, order_id,
                       [b.ledger[order_id] EXCEPT
                           !.times = IF DecGt(margin, DecZero) THEN @ + 1 ELSE @,
                           !.blind = IF blind /\ DecGt(margin, DecZero) THEN @ + 1 ELSE @,
                           !.returned = DecAdd(@, margin)])]

\* a row of the orders table with the columns cancel_order reads
OrderRow(status, amount, filled_amount, price, leverage) ==
    [status |-> status, amount |-> amount, filled_amount |-> filled_amount,
     price |-> price, leverage |-> leverage]

\* create_order with authentication enabled, up to the balance check: the
\* margin is calculated, SELECT available FROM balances is answered and
\* the balance is compared with the margin; a request without the balance
\* is answered with INSUFFICIENT_BALANCE.  The two lookups of the user's
\* positions made before are answered by the position service's table
CreateCheck ==
    /\ Len(req) < NThreads
    /\ flow.arrived < MaxArrivals
    /\ next_id <= MaxSubmits
    /\ \E o \in FlowOrders, leverage \in FlowLeverages, found \in Positions, closing \in Positions :
          \E margin \in {calculate_required_margin_with_user(
                             o.side, o.amount,
                             Unwrap(IF IsSome(o.price) THEN o.price ELSE MarkPrice),
                             leverage, found)} :
             /\ ~(DecLt(balances.available, margin)
                    /\ ~should_skip_balance_check(o.side, o.amount, closing))
             /\ req' = Append(req, [Request("create", "checked", 0, o.side, o.amount,
                                            Err("pending"), <<>>)
                                       EXCEPT !.order_type = o.order_type, !.price = o.price,
                                              !.leverage = leverage, !.margin = margin])
    /\ UNCHANGED <<bids, asks, order_index, order_count, last_trade_price, next_id>>
    /\ UNCHANGED <<ecall, trade_tx, book_tx, worker, db, exec, engine_filled, conv>>
    /\ flow' = [flow EXCEPT !.arrived = @ + 1]
    /\ UNCHANGED <<seqvars, concvars, balances, limiter>>

\* create_order: the transaction that freezes the margin, whatever the
\* balance is by now, and inserts the order as 'pending' under a fresh id
\* commits; or one of its statements gives Err, nothing is written and the
\* request is answered with the error
CreateInsert ==
    /\ next_id <= MaxSubmits
    /\ \E i \in 1 .. Len(req), ok \in BOOLEAN :
          /\ req[i].op = "create" /\ req[i].pc = "checked"
          /\ ok \/ flow.faults < MaxFaults
          /\ flow' = IF ok THEN flow ELSE [flow EXCEPT !.faults = @ + 1]
          /\ balances' = IF ok THEN Freeze(balances, next_id, req[i].margin) ELSE balances
          /\ db' = IF ok
                   THEN MapPut(db, next_id,
                               OrderRow("pending", req[i].amount, DecZero, req[i].price,
                                        req[i].leverage))
                   ELSE db
          /\ req' = IF ok THEN [req EXCEPT ![i] = [@ EXCEPT !.pc = "inserted", !.id = next_id]]
                    ELSE DropReq(i)
          /\ next_id' = IF ok THEN next_id + 1 ELSE next_id
    /\ UNCHANGED <<bids, asks, order_index, order_count, last_trade_price>>
    /\ UNCHANGED <<ecall, trade_tx, book_tx, worker, exec, engine_filled, conv>>
    /\ UNCHANGED <<seqvars, concvars, limiter>>

\* create_order of a market order, lines 373-406, with the auto market
\* maker enabled and answering Ok(liquidity_provided > 0): before the order
\* is submitted, the maker has put a limit order of its own for the amount
\* on the opposite side, at the mark price, through the engine (a maker
\* that is disabled, provides nothing or fails leaves the book as it is,
\* and the request goes on to submit_order)
CreateLiquidity ==
    /\ next_id <= MaxSubmits
    /\ \E i \in 1 .. Len(req) :
          /\ req[i].op = "create" /\ req[i].pc = "inserted"
          /\ req[i].order_type = Market
          /\ \E r \in {submit_order(CurrentBook, next_id, "BTCUSDT", Opposite(req[i].side),
                                    Limit, req[i].amount, MarkPrice)} :
                /\ SetBook(r.book)
                /\ trade_tx' = trade_tx \o r.events
                /\ exec' = exec \o r.events
                /\ book_tx' = book_tx + r.updates
                /\ engine_filled' = engine_filled \cup r.filled
          /\ req' = [req EXCEPT ![i] = [@ EXCEPT !.pc = "liquid"]]
    /\ next_id' = next_id + 1
    /\ UNCHANGED <<ecall, worker, db, conv>>
    /\ UNCHANGED <<seqvars, concvars, balances, limiter, flow>>

\* create_order: state.matching_engine.submit_order, up to the end of the
\* matching on the book
CreateMatch ==
    /\ \E i \in 1 .. Len(req) :
          /\ req[i].op = "create" /\ req[i].pc \in {"inserted", "liquid"}
          /\ \E r \in {submit_order(CurrentBook, req[i].id, "BTCUSDT", req[i].side,
                                    req[i].order_type, req[i].amount, req[i].price)} :
                /\ SetBook(r.book)
                /\ exec' = exec \o r.events
                /\ book_tx' = book_tx + r.updates
                /\ engine_filled' = engine_filled \cup r.filled
                /\ req' = [req EXCEPT ![i] = [@ EXCEPT !.pc = "matched", !.res = r.res,
                                                       !.outbox = r.events]]
    /\ UNCHANGED <<next_id, ecall, trade_tx, worker, db, conv>>
    /\ UNCHANGED <<seqvars, concvars, balances, limiter, flow>>

\* create_order: the rest of submit_order, the broadcast of the TradeEvents
\* of the call
CreateSend ==
    /\ \E i \in 1 .. Len(req) :
          /\ req[i].op = "create" /\ req[i].pc = "matched"
          /\ trade_tx' = trade_tx \o req[i].outbox
          /\ req' = [req EXCEPT ![i] = [@ EXCEPT !.pc = "sent", !.outbox = <<>>]]
    /\ UNCHANGED <<bids, asks, order_index, order_count, last_trade_price, next_id>>
    /\ UNCHANGED <<ecall, book_tx, worker, db, exec, engine_filled, conv>>
    /\ UNCHANGED <<seqvars, concvars, balances, limiter, flow>>

\* match_result.average_price as it is bound: the trades of the handlers'
\* orders have one price, which the model's integers hold
AverageDecimal(result) ==
    IF result.average_price = None THEN None
    ELSE Some(Narrow(Unwrap(result.average_price)))

\* UPDATE orders SET status = $1, filled_amount = $2, price = COALESCE($3, price)
\* WHERE id = $4
UpdateStatus(rows, order_id, status, filled_amount, average) ==
    IF order_id \in DOMAIN rows
    THEN MapPut(rows, order_id,
                [rows[order_id] EXCEPT !.status = status, !.filled_amount = filled_amount,
                                       !.price = IF IsSome(average) THEN average ELSE @])
    ELSE rows

\* create_order, lines 470-477: margin is given back after the update of
\* the order for the status Cancelled only, and then all of it
ReturnsMargin(r) ==
    Unwrap(r.res.value).status = "Cancelled" /\ DecGt(r.margin, DecZero)

\* what becomes of the requests when request i has dealt with its order: a
\* batch_cancel with order ids left goes on with the next one, any other
\* handler answers
Ended(i) ==
    IF req[i].batch /\ req[i].rest # <<>>
    THEN [req EXCEPT ![i] = [@ EXCEPT !.pc = "next"]]
    ELSE DropReq(i)

\* the database takes the status create_order binds to its UPDATE: the text
\* sqlx sends for it is a label of order_status
Accepted(r) == SqlxText(Unwrap(r.res.value).status) \in OrderStatusLabels

\* create_order: the UPDATE that writes the status of the MatchResult to
\* the orders table completes.  With Err, which is what a status text that
\* is no label of order_status always gives, the request is answered with
\* the error; else the handler answers, after the UPDATE of balances if
\* the status is Cancelled
CreateUpdate ==
    /\ \E i \in 1 .. Len(req), ok \in BOOLEAN :
          /\ req[i].op = "create" /\ req[i].pc = "sent"
          /\ ok \/ ~Accepted(req[i]) \/ flow.faults < MaxFaults
          /\ flow' = IF ok \/ ~Accepted(req[i]) THEN flow
                     ELSE [flow EXCEPT !.faults = @ + 1]
          /\ db' = IF ok /\ Accepted(req[i])
                   THEN UpdateStatus(db, req[i].id,
                                     SqlxText(Unwrap(req[i].res.value).status),
                                     Unwrap(req[i].res.value).filled_amount,
                                     AverageDecimal(Unwrap(req[i].res.value)))
                   ELSE db
          /\ req' = IF ok /\ Accepted(req[i]) /\ ReturnsMargin(req[i])
                    THEN [req EXCEPT ![i] = [@ EXCEPT !.pc = "updated"]]
                    ELSE DropReq(i)
    /\ UNCHANGED <<bids, asks, order_index, order_count, last_trade_price, next_id>>
    /\ UNCHANGED <<ecall, trade_tx, book_tx, worker, exec, engine_filled, conv>>
    /\ UNCHANGED <<seqvars, concvars, balances, limiter>>

\* the request of a cancellation that has read the row of the order
Checked(r, order_id, row) ==
    [r EXCEPT !.pc = "checked", !.id = order_id, !.amount = row.amount,
              !.price = row.price, !.leverage = row.leverage,
              !.filled_amount = row.filled_amount, !.res = Err("pending")]

\* the lists of order ids of the batch_cancel requests: one or two orders
BatchIds(ids) == {<<a>> : a \in ids} \cup {s \in ids \X ids : s[1] # s[2]}

\* cancel_order: SELECT * FROM orders WHERE id = $1 and the check of its
\* status (a request for an unknown order, for a row that is not read or
\* for an order that is not Open, PartiallyFilled or Pending is answered
\* with an error), and batch_cancel: the SELECT for its first order id,
\* with the status in the WHERE clause
CancelCheck ==
    /\ Len(req) < NThreads
    /\ flow.arrived < MaxArrivals
    /\ \/ \E order_id \in DOMAIN db :
             /\ Cancels(db[order_id].status)
             /\ req' = Append(req, Checked(Request("cancel", "checked", order_id, Buy, DecZero,
                                                   Err("pending"), <<>>),
                                           order_id, db[order_id]))
       \/ \E ids \in BatchIds(DOMAIN db) :
             /\ BatchFinds(db[ids[1]].status)
             /\ req' = Append(req, Checked([Request("cancel", "checked", ids[1], Buy, DecZero,
                                                    Err("pending"), <<>>)
                                               EXCEPT !.batch = TRUE, !.rest = Tail(ids)],
                                           ids[1], db[ids[1]]))
    /\ UNCHANGED <<bids, asks, order_index, order_count, last_trade_price, next_id>>
    /\ UNCHANGED <<ecall, trade_tx, book_tx, worker, db, exec, engine_filled, conv>>
    /\ flow' = [flow EXCEPT !.arrived = @ + 1]
    /\ UNCHANGED <<seqvars, concvars, balances, limiter>>

\* batch_cancel: the SELECT for the next order id of the list; an order
\* that is not found with one of the three statuses, or whose row is not
\* read, is put on the list of the failed ones
BatchNext ==
    /\ \E i \in 1 .. Len(req) :
          /\ req[i].op = "cancel" /\ req[i].pc = "next"
          /\ req' = IF BatchFinds(db[req[i].rest[1]].status)
                    THEN [req EXCEPT ![i] = Checked([@ EXCEPT !.rest = Tail(@)],
                                                    req[i].rest[1], db[req[i].rest[1]])]
                    ELSE IF Len(req[i].rest) > 1
                    THEN [req EXCEPT ![i] = [@ EXCEPT !.rest = Tail(@)]]
                    ELSE DropReq(i)
    /\ UNCHANGED <<bids, asks, order_index, order_count, last_trade_price, next_id>>
    /\ UNCHANGED <<ecall, trade_tx, book_tx, worker, db, exec, engine_filled, conv>>
    /\ UNCHANGED <<seqvars, concvars, balances, limiter, flow>>

\* cancel_order and batch_cancel: state.matching_engine.cancel_order
CancelEngine ==
    /\ \E i \in 1 .. Len(req) :
          /\ req[i].op = "cancel" /\ req[i].pc = "checked"
          /\ \E r \in {engine_cancel_order(CurrentBook, "BTCUSDT", req[i].id)} :
                /\ SetBook(r.book)
                /\ book_tx' = book_tx + r.updates
                /\ req' = [req EXCEPT ![i] = [@ EXCEPT !.pc = "engine", !.res = r.res]]
    /\ UNCHANGED <<next_id, ecall, trade_tx, worker, db, exec, engine_filled, conv>>
    /\ UNCHANGED <<seqvars, concvars, balances, limiter, flow>>

\* the handler goes on to give margin back after its UPDATE of the order:
\* cancel_order unless the UPDATE gave Err; batch_cancel if the engine call
\* or the UPDATE was Ok and the row it read has an unfilled remainder
GivesBack(r, ok) ==
    IF r.batch THEN (r.res.ok \/ ok) /\ DecGt(DecSub(r.amount, r.filled_amount), DecZero)
    ELSE ok

\* cancel_order and batch_cancel: UPDATE orders SET status = 'cancelled'
\* WHERE id = $1 completes, whatever the engine answered.  The handler then
\* gives margin back, at the mark price for an order without a price, or
\* is done with the order
CancelUpdate ==
    /\ \E i \in 1 .. Len(req), ok \in BOOLEAN :
          /\ req[i].op = "cancel" /\ req[i].pc = "engine"
          /\ ok \/ flow.faults < MaxFaults
          /\ flow' = IF ok THEN flow ELSE [flow EXCEPT !.faults = @ + 1]
          /\ db' = IF ok THEN update_order_status(db, req[i].id, "cancelled") ELSE db
          /\ req' = IF GivesBack(req[i], ok)
                    THEN [req EXCEPT ![i] = [@ EXCEPT !.pc = IF IsSome(req[i].price)
                                                             THEN "updated" ELSE "price"]]
                    ELSE Ended(i)
    /\ UNCHANGED <<bids, asks, order_index, order_count, last_trade_price, next_id>>
    /\ UNCHANGED <<ecall, trade_tx, book_tx, worker, exec, engine_filled, conv>>
    /\ UNCHANGED <<seqvars, concvars, balances, limiter>>

\* cancel_order and batch_cancel, for an order without a price:
\* price_feed_service.get_mark_price(&order.symbol).await
CancelPrice ==
    /\ \E i \in 1 .. Len(req) :
          /\ req[i].op = "cancel" /\ req[i].pc = "price"
          /\ req' = [req EXCEPT ![i] = [@ EXCEPT !.pc = "updated"]]
    /\ UNCHANGED <<bids, asks, order_index, order_count, last_trade_price, next_id>>
    /\ UNCHANGED <<ecall, trade_tx, book_tx, worker, db, exec, engine_filled, conv>>
    /\ UNCHANGED <<seqvars, concvars, balances, limiter, flow>>

\* cancel_order and batch_cancel: the margin of order.amount -
\* order.filled_amount of the row read at the start, at the order's price
\* (the mark price, or 100000, for an order without one)
RemainingMargin(r) ==
    calculate_required_margin(
        DecSub(r.amount, r.filled_amount),
        Unwrap(IF IsSome(r.price) THEN r.price
               ELSE IF IsSome(MarkPrice) THEN MarkPrice ELSE Some(Dec(100000, 0))),
        r.leverage)

\* UPDATE balances SET available = available + $1, frozen = frozen - $1
\* completes, the last statement of the three handlers for an order: of
\* create_order with the margin it froze, of cancel_order and batch_cancel
\* with the margin of the remainder.  An Err is ignored
Unfrozen(b, r, ok) ==
    IF ~ok THEN b
    ELSE IF r.op = "create" THEN Unfreeze(b, r.id, r.margin, FALSE)
    ELSE Unfreeze(b, r.id, RemainingMargin(r), ~(r.res.ok /\ Unwrap(r.res.value)))

UnfreezeMargin ==
    /\ \E i \in 1 .. Len(req), ok \in BOOLEAN :
          /\ req[i].pc = "updated"
          /\ ok \/ flow.faults < MaxFaults
          /\ flow' = IF ok THEN flow ELSE [flow EXCEPT !.faults = @ + 1]
          /\ balances' = Unfrozen(balances, req[i], ok)
          /\ req' = Ended(i)
    /\ UNCHANGED <<bids, asks, order_index, order_count, last_trade_price, next_id>>
    /\ UNCHANGED <<ecall, trade_tx, book_tx, worker, db, exec, engine_filled, conv>>
    /\ UNCHANGED <<seqvars, concvars, limiter>>

\* the collateral of the open_position requests
Collaterals == {Dec(1, 0)}

\* what claim_earnings finds as the sum of the caller's pending commission
Pendings == {Dec(5, 0), Dec(10, 0)}

\* claim_earnings: let min_claim = Decimal::new(10, 0)
min_claim == Dec(10, 0)

\* the total_payout of a settlement
Payouts == {Dec(1, 0)}

\* UPDATE balances SET available = available - $1, frozen = frozen + $1
\* (open_position), and its inverse, by which open_position gives the
\* collateral back
Collateral(b, amount) ==
    [b EXCEPT !.available = DecSub(@, amount), !.frozen = DecAdd(@, amount)]

\* ... DO UPDATE SET available = balances.available + $3 (claim_earnings,
\* settle_user_shares)
Credit(b, amount) == [b EXCEPT !.available = DecAdd(@, amount)]

\* open_position, up to the balance check: SELECT available FROM balances
\* is answered and compared with the collateral of the request; a request
\* without the balance is answered with INSUFFICIENT_BALANCE
OpenCheck ==
    /\ Len(req) < NThreads
    /\ flow.arrived < MaxArrivals
    /\ \E collateral \in Collaterals :
          /\ ~DecLt(balances.available, collateral)
          /\ req' = Append(req, [Request("open", "checked", 0, Buy, DecZero,
                                         Err("pending"), <<>>)
                                    EXCEPT !.margin = collateral])
    /\ UNCHANGED <<bids, asks, order_index, order_count, last_trade_price, next_id>>
    /\ UNCHANGED <<ecall, trade_tx, book_tx, worker, db, exec, engine_filled, conv>>
    /\ flow' = [flow EXCEPT !.arrived = @ + 1]
    /\ UNCHANGED <<seqvars, concvars, balances, limiter>>

\* open_position: the UPDATE of balances that freezes the collateral,
\* whatever the balance is by now; with Err the request is answered with
\* the error
OpenFreeze ==
    /\ \E i \in 1 .. Len(req), ok \in BOOLEAN :
          /\ req[i].op = "open" /\ req[i].pc = "checked"
          /\ ok \/ flow.faults < MaxFaults
          /\ flow' = IF ok THEN flow ELSE [flow EXCEPT !.faults = @ + 1]
          /\ balances' = IF ok THEN Collateral(balances, req[i].margin) ELSE balances
          /\ req' = IF ok THEN [req EXCEPT ![i] = [@ EXCEPT !.pc = "frozen"]]
                    ELSE DropReq(i)
    /\ UNCHANGED <<bids, asks, order_index, order_count, last_trade_price, next_id>>
    /\ UNCHANGED <<ecall, trade_tx, book_tx, worker, db, exec, engine_filled, conv>>
    /\ UNCHANGED <<seqvars, concvars, limiter>>

\* open_position: position_service.increase_position(..).await returns; Ok
\* answers the request, with Err the handler goes on to give the
\* collateral back
OpenPosition ==
    /\ \E i \in 1 .. Len(req), ok \in BOOLEAN :
          /\ req[i].op = "open" /\ req[i].pc = "frozen"
          /\ req' = IF ok THEN DropReq(i)
                    ELSE [req EXCEPT ![i] = [@ EXCEPT !.pc = "failed"]]
    /\ UNCHANGED <<bids, asks, order_index, order_count, last_trade_price, next_id>>
    /\ UNCHANGED <<ecall, trade_tx, book_tx, worker, db, exec, engine_filled, conv>>
    /\ UNCHANGED <<seqvars, concvars, balances, limiter, flow>>

\* open_position after an Err of increase_position: the UPDATE of balances
\* that gives the collateral back; its own Err is logged.  The request is
\* answered with POSITION_OPEN_FAILED
OpenRollback ==
    /\ \E i \in 1 .. Len(req), ok \in BOOLEAN :
          /\ req[i].op = "open" /\ req[i].pc = "failed"
          /\ ok \/ flow.faults < MaxFaults
          /\ flow' = IF ok THEN flow ELSE [flow EXCEPT !.faults = @ + 1]
          /\ balances' = IF ok THEN Collateral(balances, DecSub(DecZero, req[i].margin))
                         ELSE balances
          /\ req' = DropReq(i)
    /\ UNCHANGED <<bids, asks, order_index, order_count, last_trade_price, next_id>>
    /\ UNCHANGED <<ecall, trade_tx, book_tx, worker, db, exec, engine_filled, conv>>
    /\ UNCHANGED <<seqvars, concvars, limiter>>

\* close_position, after the position service has decreased the position
\* found: INSERT INTO orders of the close order, a market order under a
\* fresh id that is 'filled' with its whole amount, at the mark price; an
\* Err of the INSERT is logged and the request is answered without the order
ClosePosition ==
    /\ flow.arrived < MaxArrivals
    /\ next_id <= MaxSubmits
    /\ \E position \in Positions \ {None}, leverage \in FlowLeverages, ok \in BOOLEAN :
          /\ ok \/ flow.faults < MaxFaults
          /\ flow' = [arrived |-> flow.arrived + 1,
                      faults |-> IF ok THEN flow.faults ELSE flow.faults + 1]
          /\ db' = IF ok
                   THEN MapPut(db, next_id,
                               OrderRow("filled", Unwrap(position).size, Unwrap(position).size,
                                        MarkPrice, leverage))
                   ELSE db
          /\ next_id' = IF ok THEN next_id + 1 ELSE next_id
    /\ UNCHANGED <<bids, asks, order_index, order_count, last_trade_price>>
    /\ UNCHANGED <<ecall, trade_tx, book_tx, worker, req, exec, engine_filled, conv>>
    /\ UNCHANGED <<seqvars, concvars, balances, limiter>>

\* claim_earnings, up to its checks: SELECT COALESCE(SUM(commission), 0) of
\* the caller's pending referral_earnings is answered; a sum that is not
\* positive or is below min_claim is answered with an error
ClaimCheck ==
    /\ Len(req) < NThreads
    /\ flow.arrived < MaxArrivals
    /\ \E pending \in Pendings :
          /\ ~DecLe(pending, DecZero)
          /\ ~DecLt(pending, min_claim)
          /\ req' = Append(req, [Request("claim", "checked", 0, Buy, DecZero,
                                         Err("pending"), <<>>)
                                    EXCEPT !.margin = pending])
    /\ UNCHANGED <<bids, asks, order_index, order_count, last_trade_price, next_id>>
    /\ UNCHANGED <<ecall, trade_tx, book_tx, worker, db, exec, engine_filled, conv>>
    /\ flow' = [flow EXCEPT !.arrived = @ + 1]
    /\ UNCHANGED <<seqvars, concvars, balances, limiter>>

\* claim_earnings: the transaction that marks the pending earnings as
\* claimed and adds the sum found before to the available balance commits;
\* or one of its statements gives Err and nothing is written
ClaimCommit ==
    /\ \E i \in 1 .. Len(req), ok \in BOOLEAN :
          /\ req[i].op = "claim" /\ req[i].pc = "checked"
          /\ ok \/ flow.faults < MaxFaults
          /\ flow' = IF ok THEN flow ELSE [flow EXCEPT !.faults = @ + 1]
          /\ balances' = IF ok THEN Credit(balances, req[i].margin) ELSE balances
          /\ req' = DropReq(i)
    /\ UNCHANGED <<bids, asks, order_index, order_count, last_trade_price, next_id>>
    /\ UNCHANGED <<ecall, trade_tx, book_tx, worker, db, exec, engine_filled, conv>>
    /\ UNCHANGED <<seqvars, concvars, limiter>>

\* SettlementService::settle_user_shares for a user with shares to settle
\* and a payout: the transaction that redeems the shares and adds
\* total_payout to the available balance commits; or one of its statements
\* gives Err and nothing is written
SettleShares ==
    /\ flow.arrived < MaxArrivals
    /\ \E total_payout \in Payouts, ok \in BOOLEAN :
          /\ ok \/ flow.faults < MaxFaults
          /\ flow' = [arrived |-> flow.arrived + 1,
                      faults |-> IF ok THEN flow.faults ELSE flow.faults + 1]
          /\ balances' = IF ok /\ DecGt(total_payout, DecZero)
                         THEN Credit(balances, total_payout) ELSE balances
    /\ UNCHANGED <<bids, asks, order_index, order_count, last_trade_price, next_id>>
    /\ UNCHANGED <<ecall, trade_tx, book_tx, worker, db, req, exec, engine_filled, conv>>
    /\ UNCHANGED <<seqvars, concvars, limiter>>

NextFlow ==
    CreateCheck \/ CreateInsert \/ CreateLiquidity \/ CreateMatch \/ CreateSend
    \/ CreateUpdate \/ CancelCheck \/ BatchNext \/ CancelEngine \/ CancelUpdate
    \/ CancelPrice \/ UnfreezeMargin
    \/ OpenCheck \/ OpenFreeze \/ OpenPosition \/ OpenRollback \/ ClosePosition
    \/ ClaimCheck \/ ClaimCommit \/ SettleShares

SpecFlow == Init /\ [][NextFlow]_vars

----------------------------------------------------------------------------
(* C15: terminal statuses.  Once the orders table holds filled, cancelled or
   rejected for an order, no step changes that status, and the cancel
   request for an order the engine has filled completely, to which the
   engine answers "not found", does not record the order as cancelled. *)
Terminal == {"filled", "cancelled", "rejected"}

TerminalKept ==
    \A id \in DOMAIN db :
        db[id].status \in Terminal => id \in DOMAIN db' /\ db'[id].status = db[id].status

\* the last step of a cancel request to which the engine answered false
\* for an order it had filled
CancelOfFilled(i) ==
    /\ req[i].op = "cancel" /\ req[i].pc = "engine"
    /\ req[i].res.ok /\ ~Unwrap(req[i].res.value)
    /\ req[i].id \in engine_filled
    /\ \/ req' = DropReq(i)
       \/ Len(req') = Len(req) /\ req'[i] # req[i]

FilledNotCancelled ==
    \A i \in 1 .. Len(req) :
        (CancelOfFilled(i) /\ db[req[i].id].status # "cancelled")
            => db'[req[i].id].status # "cancelled"

C15_TerminalStatuses == [][TerminalKept /\ FilledNotCancelled]_vars

----------------------------------------------------------------------------
(* C17: broadcast order equals execution order.  The TradeEvents on the
   trade channel stand in the order in which match_order applied their
   fills to the book, also when two submit_order calls run concurrently. *)
PlaceIn(q, x) == CHOOSE i \in 1 .. Len(q) : q[i] = x

C17_BroadcastInExecutionOrder ==
    \A i, j \in 1 .. Len(trade_tx) :
        i < j => PlaceIn(exec, trade_tx[i]) < PlaceIn(exec, trade_tx[j])

----------------------------------------------------------------------------
(* C21: last trade price.  After a match_order call that returned trades,
   last_trade_price() is the price of the last trade of the list, for a
   trade price of at most 8 fractional digits; a snapshot shows the same
   value as last_price; and a book on which no order was ever placed has
   none. *)
LastTrade == last.trades[Len(last.trades)]

C21_LastTradePrice ==
    /\ (IsMatch /\ last.trades # <<>> /\ DecNormalize(LastTrade.price).s <= 8)
          => /\ IsSome(get_last_trade_price(last_trade_price))
             /\ DecEq(Unwrap(get_last_trade_price(last_trade_price)), LastTrade.price)
    /\ IsSnapshot => last.snap.last_price = get_last_trade_price(last_trade_price)
    /\ next_id = 1 => get_last_trade_price(last_trade_price) = None

----------------------------------------------------------------------------
(* C22: top of book.  best_bid() is the highest price among the resident buy
   orders and best_ask() the lowest price among the resident sell orders,
   None for an empty side; spread() is best_ask - best_bid when both exist
   and None otherwise. *)

\* p is the highest (top = 1) or the lowest (top = -1) price of the residents of m
ExtremePrice(m, p, top) ==
    /\ \E r \in ResidentSets(m) : DecEq(r.entry.price, p)
    /\ \A r \in ResidentSets(m) : top * DecCmp(r.entry.price, p) <= 0

C22_TopOfBook ==
    /\ IsSome(best_bid(CurrentBook)) <=> ResidentSets(bids) # {}
    /\ IsSome(best_ask(CurrentBook)) <=> ResidentSets(asks) # {}
    /\ IsSome(best_bid(CurrentBook)) => ExtremePrice(bids, Unwrap(best_bid(CurrentBook)), 1)
    /\ IsSome(best_ask(CurrentBook)) => ExtremePrice(asks, Unwrap(best_ask(CurrentBook)), -1)
    /\ IsSome(spread(CurrentBook)) <=> (ResidentSets(bids) # {} /\ ResidentSets(asks) # {})
    /\ IsSome(spread(CurrentBook)) =>
          DecEq(DecAdd(Unwrap(spread(CurrentBook)), Unwrap(best_bid(CurrentBook))),
                Unwrap(best_ask(CurrentBook)))

----------------------------------------------------------------------------
(* The average fill price of submit_order (SpecAverage): the engine called
   one call at a time with the orders of the example of section 8, asks of
   1.0 and 2.0 and a buy of 1.5, at the prices 10 and 11 (a PriceLevel is
   price * 10^8, which the model's integers hold up to a price of 21) *)

AvgPrices == {Dec(10, 0), Dec(11, 0)}
AvgAmounts == {Dec(10, 1), Dec(15, 1), Dec(20, 1)}

\* MatchingEngine::submit_order, called directly with these orders
SubmitPriced ==
    /\ ecall = None
    /\ next_id <= MaxSubmits
    /\ \E symbol \in Symbols, side \in Sides, amount \in AvgAmounts :
          \/ \E p \in AvgPrices : DoSubmit(symbol, side, Limit, amount, Some(p))
          \/ DoSubmit(symbol, side, Market, amount, None)
    /\ UNCHANGED <<worker, db, req, conv>>
    /\ UNCHANGED <<seqvars, concvars, balances, limiter, flow>>

NextAverage == SubmitPriced \/ ReturnE

SpecAverage == Init /\ [][NextAverage]_vars

\* |a - b| of two magnitudes
MagDiff(x, y) == IF MagCmp(x, y) >= 0 THEN MagSub(x, y) ELSE MagSub(y, x)

\* the scale at which avg * den and num are both integers, and at that
\* scale: avg * den, num, and one unit of the last digit of avg times den
AvgScale(avg, num, den) == MaxOf(avg.s + den.s, num.s)
AvgTimesDen(avg, num, den) ==
    MagTimesPow10(MagMulSmall(avg.mag, den.m), AvgScale(avg, num, den) - avg.s - den.s)
AvgNum(avg, num, den) == MagTimesPow10(IntMag(num.m), AvgScale(avg, num, den) - num.s)
AvgUnit(avg, num, den) ==
    MagTimesPow10(IntMag(den.m), AvgScale(avg, num, den) - avg.s - den.s)

\* avg * den = num
AverageExact(avg, num, den) ==
    /\ ~avg.neg
    /\ \E l \in {AvgTimesDen(avg, num, den)}, r \in {AvgNum(avg, num, den)} :
          MagCmp(l, r) = 0

\* |avg * den - num| is at most half a unit of the last digit of avg, times den
AverageNearest(avg, num, den) ==
    /\ ~avg.neg
    /\ \E l \in {AvgTimesDen(avg, num, den)}, r \in {AvgNum(avg, num, den)} :
          \E twice \in {MagMulSmall(MagDiff(l, r), 2)}, unit \in {AvgUnit(avg, num, den)} :
             MagCmp(twice, unit) <= 0

\* a Decimal that has no room for one more digit: its scale is 28, or its
\* mantissa with another digit would pass 96 bits
AtFullWidth(avg) ==
    \/ avg.s = 28
    \/ MagCmp(MagAdd(MagMulSmall(avg.mag, 10), <<9>>), MaxMantissa) > 0

(* C23: average fill price, as the claim states it.  The average_price of a
   MatchResult is the volume-weighted average of its trades: average_price
   times the sum of the trades' amounts equals the sum of price * amount
   over the trades; it is absent when the result has no trades. *)
C23_AveragePrice ==
    (IsSubmitCall /\ EC.res.ok) =>
       /\ ER.average_price = None <=> ER.trades = <<>>
       /\ ER.trades # <<>> =>
             AverageExact(Unwrap(ER.average_price), SumValue(ER.trades), Matched)

(* C23, amended: average fill price.  The average_price of a MatchResult is
   absent when the result has no trades; else it is the Decimal quotient of
   the sum of price * amount over the trades by the sum of the trades'
   amounts: average_price times the sum of the amounts differs from the sum
   of price * amount by at most half a unit of the last digit of
   average_price times the sum of the amounts, and by nothing unless
   average_price fills the width of a Decimal. *)
C23_AverageRounded ==
    (IsSubmitCall /\ EC.res.ok) =>
       /\ ER.average_price = None <=> ER.trades = <<>>
       /\ ER.trades # <<>> =>
             /\ AverageNearest(Unwrap(ER.average_price), SumValue(ER.trades), Matched)
             /\ \/ AverageExact(Unwrap(ER.average_price), SumValue(ER.trades), Matched)
                \/ AtFullWidth(Unwrap(ER.average_price))

\* asks A (1.0 at 10) and B (2.0 at 11), then a limit buy of 1.5 at 11: the
\* trades are (10, 1.0, A) then (11, 0.5, B), A is removed, B stays with
\* 1.5, and the average 15.5 / 1.5 is 10.333333333333333333333333333, which
\* times 1.5 is not 15.5; with the prices 100 and 101 the division is
\* 150.5 / 1.5 = 100.33333333333333333333333333
C23_Witness ==
    /\ IsSubmitCall /\ EC.res.ok /\ EC.side = Buy /\ EC.order_type = Limit
    /\ Len(ER.trades) = 2
    /\ DecEq(ER.trades[1].price, Dec(10, 0)) /\ DecEq(ER.trades[1].amount, Dec(1, 0))
    /\ DecEq(ER.trades[2].price, Dec(11, 0)) /\ DecEq(ER.trades[2].amount, Dec(5, 1))
    /\ ResidentsOf(ER.trades[1].maker_order_id) = {}
    /\ \E r \in ResidentsOf(ER.trades[2].maker_order_id) :
          DecEq(r.entry.remaining_amount, Dec(15, 1))
    /\ Unwrap(ER.average_price)
          = WideDec(FALSE, <<1, 333, 3333, 3333, 3333, 3333, 3333, 3333>>, 27)
    /\ ~AverageExact(Unwrap(ER.average_price), SumValue(ER.trades), Matched)
    /\ DecDiv(Dec(1505, 1), Dec(15, 1))
          = WideDec(FALSE, <<1, 33, 3333, 3333, 3333, 3333, 3333, 3333>>, 26)

----------------------------------------------------------------------------
(* C24: position update per filled side.  For every TradeEvent of an order
   submitted through process_order that the worker persisted, the worker has
   called increase_position exactly once for the maker (Short when the taker
   bought, Long when it sold) and exactly once for the taker (Long when it
   bought, Short when it sold), whatever the interleaving of the worker with
   the spawned persist_order tasks. *)
CallsFor(event, role) ==
    {j \in DOMAIN worker.positions :
        worker.positions[j].event = event /\ worker.positions[j].role = role}

C24_PositionsUpdated ==
    \A i \in DOMAIN worker.persisted :
       LET event == worker.persisted[i]
           bought == trade_tx[event].side = Buy
       IN  /\ Cardinality(CallsFor(event, "maker")) = 1
           /\ Cardinality(CallsFor(event, "taker")) = 1
           /\ \A j \in CallsFor(event, "maker") :
                 worker.positions[j].side = IF bought THEN "Short" ELSE "Long"
           /\ \A j \in CallsFor(event, "taker") :
                 worker.positions[j].side = IF bought THEN "Long" ELSE "Short"

----------------------------------------------------------------------------
(* C25: index/book agreement under concurrency.  In every state in which no
   orderbook operation is in progress, whatever the interleaving of the
   concurrent add_order, cancel_order and match_order calls that led to it,
   every id in the order index has exactly one resident entry, at the
   indexed side and level, and every resident entry has its id in the
   index. *)

\* every call that was started has returned
NoneInProgress == \A t \in Threads : th[t].pc \in {"idle", "done"}

C25_IndexBookAgreementConc ==
    NoneInProgress =>
       /\ \A id \in DOMAIN order_index :
             /\ Cardinality(HoldersOf(id)) = 1
             /\ \A h \in HoldersOf(id) : order_index[id] = <<h[1], h[2].level>>
       /\ \A r \in ResidentSets(bids) \cup ResidentSets(asks) :
             r.entry.id \in DOMAIN order_index

----------------------------------------------------------------------------
(* C26: a limit order takes all eligible liquidity.  When match_order with
   limit_price = Some(L) returns a remaining amount > 0, no ask level with
   price <= L (Buy taker), respectively no bid level with price >= L (Sell
   taker), is resident afterwards; the levels beyond the limit and the
   taker's own side are as before the call. *)

\* the price of the level is within the limit of the call
Eligible(l) ==
    IF last.side = Buy THEN DecLe(to_decimal(l), Unwrap(last.limit))
    ELSE DecGe(to_decimal(l), Unwrap(last.limit))

C26_LimitTakesAll ==
    (IsMatch /\ IsSome(last.limit)) =>
       /\ DecGt(last.remaining, DecZero) => \A l \in DOMAIN PostOpp : ~Eligible(l)
       /\ \A l \in DOMAIN PreOpp :
             ~Eligible(l) => l \in DOMAIN PostOpp /\ PostOpp[l] = PreOpp[l]
       /\ SideMap(CurrentBook, last.side) = SideMap(last.pre, last.side)

\* a limit order that consumed the level at its limit, has an amount left,
\* and left the level beyond its limit resident
C26_Witness ==
    /\ IsMatch /\ IsSome(last.limit)
    /\ DecGt(last.remaining, DecZero)
    /\ last.trades # <<>>
    /\ \E l \in DOMAIN PreOpp : DecEq(to_decimal(l), Unwrap(last.limit))
    /\ \E l \in DOMAIN PostOpp : ~Eligible(l)

----------------------------------------------------------------------------
(* C27: the book is never crossed.  Starting from an empty book, after any
   sequence of submit_order calls (Limit and Market, positive amounts, prices
   with at most 8 fractional digits) and cancel_order calls made one at a
   time on a symbol, best_bid < best_ask whenever both sides are non-empty. *)
C27_NeverCrossed ==
    (bids # <<>> /\ asks # <<>>) =>
       /\ IsSome(best_bid(CurrentBook)) /\ IsSome(best_ask(CurrentBook))
       /\ DecLt(Unwrap(best_bid(CurrentBook)), Unwrap(best_ask(CurrentBook)))

\* both sides are resident after a limit order matched one order and then
\* rested beside another whose price its limit does not reach
C27_Witness ==
    /\ IsSubmitCall /\ EC.res.ok /\ EC.order_type = Limit
    /\ ER.trades # <<>>
    /\ ResidentsOf(EC.id) # {}
    /\ bids # <<>> /\ asks # <<>>

----------------------------------------------------------------------------
(* Concurrent submit_order calls on one symbol (SpecSubmit).  Each thread
   makes one call: match_order against the opposite side under that side's
   write lock, then, for a limit order with an amount left, add_order into
   its own side.  The steps of match_order and of add_order are those of
   the concurrent callers above. *)

\* submit_order up to match_order's lock on the opposite side
SubmitLock(t) ==
    /\ th[t].pc = "idle"
    /\ next_id <= MaxOrders
    /\ \E side \in Sides, amount \in ConcAmounts, limit_price \in ConcLimits :
          /\ lock[Opposite(side)] = 0
          /\ lock' = [lock EXCEPT ![Opposite(side)] = t]
          /\ th' = [th EXCEPT ![t] = [IdleThread EXCEPT
                        !.op = "submit", !.pc = "m_for", !.id = next_id, !.side = side,
                        !.amount = amount, !.limit = limit_price,
                        !.levels = PriceLevels(side, SideMap(CurrentBook, Opposite(side)))]]
    /\ next_id' = next_id + 1
    /\ UNCHANGED <<bids, asks, order_index, order_count, last_trade_price,
                   seqvars, book_taker, idx_taker>>
    /\ UNCHANGED engvars
    /\ Watched

\* the amount the order was submitted with
SubmittedAmount(me) == DecAdd(me.amount, SumTrades(me.trades, AllTrades(me.trades)))

\* submit_order's add_order of the remainder: push_back under the own
\* side's write lock (orderbook.rs 100-113)
SubmitRest(t) ==
    /\ th[t].pc = "s_rest"
    /\ LET me          == th[t]
           entry       == OrderEntry(me.id, Unwrap(me.limit), SubmittedAmount(me),
                                     me.amount, me.side)
           price_level == from_decimal(Unwrap(me.limit))
       IN  /\ lock[me.side] = 0
           /\ SetSideMap(me.side, PushBack(SideMap(CurrentBook, me.side), price_level, entry))
           /\ th' = [th EXCEPT ![t].pc = "a_index",
                               ![t].saved = Some(<<me.side, price_level>>),
                               ![t].entry = Some(entry)]
    /\ UNCHANGED <<order_index, order_count, last_trade_price, next_id, seqvars, lock,
                   book_taker, idx_taker>>
    /\ UNCHANGED engvars
    /\ Watched

SubmitStep(t) ==
    \/ SubmitLock(t) \/ MatchFor(t) \/ MatchWhile(t)
    \/ MatchUnindex(t) \/ MatchUncount(t) \/ MatchUnlock(t)
    \/ SubmitRest(t) \/ AddIndex(t) \/ AddCount(t)

NextSubmit == \E t \in Threads : SubmitStep(t)

SpecSubmit == Init /\ [][NextSubmit]_vars

----------------------------------------------------------------------------
(* C28: no crossing under concurrent submission.  When submit_order calls
   for one symbol run concurrently, no state in which all of them have
   finished has a resting bid and a resting ask with bid price >= ask price;
   two limit orders whose prices cross are matched against each other,
   whatever the interleaving. *)

\* the finished calls of two threads are limit orders whose prices cross
CrossingPair(b, a) ==
    /\ th[b].op = "submit" /\ th[b].pc = "done" /\ th[b].side = Buy
    /\ th[a].op = "submit" /\ th[a].pc = "done" /\ th[a].side = Sell
    /\ IsSome(th[b].limit) /\ IsSome(th[a].limit)
    /\ DecGe(Unwrap(th[b].limit), Unwrap(th[a].limit))

TradedWith(t, u) == TradesNaming(th[t].trades, th[u].id) # {}

C28_NoCrossingConc ==
    NoneInProgress =>
       /\ \A b \in ResidentSets(bids), a \in ResidentSets(asks) :
             DecLt(b.entry.price, a.entry.price)
       /\ \A b, a \in Threads :
             CrossingPair(b, a) => TradedWith(b, a) \/ TradedWith(a, b)

----------------------------------------------------------------------------
(* C29: no liquidity is used twice in a cancel/match race.  For an order
   resting with remaining amount R: the amounts traded against it by the
   match_order calls, plus the remaining_amount of the entry a cancel_order
   returned (zero when it returned None), plus what is still resident of it,
   stay equal to R in every step of every interleaving; and when a
   cancel_order(id) and the concurrent calls have finished the order is
   neither in the book nor in the index, so that traded plus returned is R. *)

\* the amounts the calls of the threads in S traded against the order
RECURSIVE TradedAgainst(_, _, _)
TradedAgainst(calls, S, id) ==
    IF S = {} THEN DecZero
    ELSE DecAdd(SumTrades(calls[MinOf(S)].trades, TradesNaming(calls[MinOf(S)].trades, id)),
                TradedAgainst(calls, S \ {MinOf(S)}, id))

\* the remaining_amount of the entry a cancel_order(id) call returned
ReturnedTo(call, id) ==
    IF call.op = "cancel" /\ call.id = id /\ IsSome(call.entry)
    THEN Unwrap(call.entry).remaining_amount ELSE DecZero

RECURSIVE ReturnedByCancel(_, _, _)
ReturnedByCancel(calls, S, id) ==
    IF S = {} THEN DecZero
    ELSE DecAdd(ReturnedTo(calls[MinOf(S)], id), ReturnedByCancel(calls, S \ {MinOf(S)}, id))

\* traded, returned and still resident of the order, in a state of the
\* threads and of the two side maps
Accounted(calls, b, a, id) ==
    DecAdd(DecAdd(TradedAgainst(calls, Threads, id), ReturnedByCancel(calls, Threads, id)),
           DecAdd(RemainingOf(b, id), RemainingOf(a, id)))

C29_NoLiquidityUsedTwice ==
    /\ [][\A id \in OrderIds :
            /\ (AddedBefore(id) /\ AllIdle) =>
                  \A h \in HoldersOf(id) :
                     DecEq(Accounted(th, bids, asks, id), h[2].entry.original_amount)
            /\ AddedBefore(id) =>
                  DecEq(Accounted(th', bids', asks', id), Accounted(th, bids, asks, id))]_vars
    /\ [](\A id \in OrderIds : \A c \in Threads :
            (NoneInProgress /\ AddedBefore(id) /\ FinishedCancel(c, id)) =>
               /\ ~IsResident(id)
               /\ id \notin DOMAIN order_index)

\* a match_order traded 1 against an order of 2, the cancel_order returned
\* the entry with the other 1, and both have finished
C29_Witness ==
    \E id \in OrderIds : \E c, m \in Threads :
       /\ AddedBefore(id) /\ FinishedCancel(c, id) /\ FinishedMatch(m)
       /\ TradesNaming(th[m].trades, id) # {}
       /\ IsSome(th[c].entry)
       /\ DecEq(Unwrap(th[c].entry).original_amount, Dec(2, 0))
       /\ DecEq(Unwrap(th[c].entry).remaining_amount, Dec(1, 0))
       /\ DecEq(TradedAgainst(th, Threads, id), Dec(1, 0))
       /\ ~IsResident(id) /\ id \notin DOMAIN order_index

----------------------------------------------------------------------------
(* C30: order count, as the claim states it.  In every state in which no
   orderbook operation is in progress, whatever the sequence or interleaving
   of add_order (distinct ids), cancel_order and match_order calls that led
   to it, order_count() is the number of entries resident in the bids and
   asks maps together; and order_count() is never negative. *)
ResidentCount == Cardinality(ResidentSets(bids)) + Cardinality(ResidentSets(asks))

C30_OrderCount ==
    /\ NoneInProgress => order_count = ResidentCount
    /\ order_count >= 0

\* the add_order calls that have pushed their entry and not yet run
\* fetch_add, and the cancel_order and match_order calls that have taken an
\* entry out of its queue and not yet run fetch_sub
Uncounted == {t \in Threads : th[t].pc \in {"a_index", "a_count"}}
Unsubtracted == {t \in Threads : th[t].pc \in {"c_count", "m_unindex", "m_uncount"}}

(* C30, amended: order count.  At every moment order_count() is the number
   of resident entries, less the add_order calls between their push_back
   and their fetch_add, plus the removals between the removal and its
   fetch_sub; so in every state in which no orderbook operation is in
   progress it is the number of resident entries and is not negative, and
   while calls are in progress it is not below minus the number of
   add_order calls that have not counted their entry yet. *)
C30_OrderCountSettled ==
    /\ order_count = ResidentCount - Cardinality(Uncounted) + Cardinality(Unsubtracted)
    /\ order_count >= 0 - Cardinality(Uncounted)
    /\ NoneInProgress => (order_count = ResidentCount /\ order_count >= 0)

\* an add_order has pushed its entry and not yet counted it, a concurrent
\* match_order has filled that entry, taken it out and run its fetch_sub:
\* order_count() is -1 with an empty book
C30_Witness ==
    /\ order_count = 0 - 1
    /\ ResidentCount = 0
    /\ \E a, m \in Threads :
          /\ th[a].op = "add" /\ th[a].pc \in {"a_index", "a_count"}
          /\ th[m].op = "match"
          /\ TradesNaming(th[m].trades, th[a].id) # {}
          /\ ~IsResident(th[a].id)

----------------------------------------------------------------------------
(* C31: lag tolerance of the orchestrator's worker.  On Lagged(n) the worker
   of start_persistence_worker skips the n missed events and keeps
   receiving: it goes on from the oldest event the channel still holds, it
   is never stopped, it can receive whenever it is not inside persist_trade
   and an event it has not received exists, and every event it moved past
   was passed to persist_trade or was counted as missed. *)
Lags == worker'.lagged # worker.lagged

\* the positions of the events passed to persist_trade so far
Passed ==
    {worker.persisted[i] : i \in DOMAIN worker.persisted}
    \cup {worker.failed[i] : i \in DOMAIN worker.failed}
    \cup {worker.busy[i] : i \in DOMAIN worker.busy}

C31_OrchWorkerToleratesLag ==
    /\ [][Lags =>
            /\ worker'.pos = Len(trade_tx) - ChanCap
            /\ worker'.lagged - worker.lagged = worker'.pos - worker.pos
            /\ worker'.busy = None
            /\ ~worker'.stopped]_vars
    /\ [][(worker'.pos # worker.pos /\ ~Lags) =>
            /\ worker'.pos = worker.pos + 1
            /\ worker'.busy = Some(worker'.pos)]_vars
    /\ [](~worker.stopped)
    /\ []((worker.busy = None /\ worker.pos < Len(trade_tx)) => ENABLED WorkerRecv)
    /\ [](/\ Passed \subseteq 1 .. worker.pos
          /\ Cardinality(Passed) + worker.lagged = worker.pos)

\* the worker missed the first TradeEvent and persisted the second
C31_Witness ==
    /\ worker.lagged = 1
    /\ worker.persisted = <<2>>
    /\ worker.failed = <<>>
    /\ ~worker.stopped

----------------------------------------------------------------------------
(* C32: lag tolerance of the trade persistence worker started in main.
   After a Lagged(n) signal the worker keeps running: it is never stopped,
   and whenever it is not inside persist_trade and a TradeEvent it has not
   received exists, it can receive. *)
C32_MainWorkerToleratesLag ==
    /\ [][Lags => ~worker'.stopped]_vars
    /\ [](~worker.stopped)
    /\ []((worker.busy = None /\ worker.pos < Len(trade_tx)) => ENABLED MainRecv)

----------------------------------------------------------------------------
(* C33: zero amount is never matched.  match_order called with amount <= 0
   returns no trades and the amount as it was, and leaves bids, asks, the
   index, order_count and the last trade price as they were, for any book
   and any limit_price. *)
C33_ZeroNeverMatched ==
    (IsMatch /\ DecLe(last.amount, DecZero)) =>
       /\ last.trades = <<>>
       /\ last.remaining = last.amount
       /\ CurrentBook = last.pre

\* a negative amount handed to match_order with a limit that the resident
\* order on the opposite side meets
C33_Witness ==
    /\ IsMatch
    /\ DecLt(last.amount, DecZero)
    /\ IsSome(last.limit)
    /\ \E l \in DOMAIN PreOpp : Eligible(l)
    /\ last.pre.last_trade_price # 0

----------------------------------------------------------------------------
(* The sequential book with three orders (SpecCancel): add_order,
   cancel_order and match_order calls one at a time, at the prices 1 and 2,
   so that a level holds up to three orders when one of them is cancelled *)

RestingIds == 1 .. MaxResting
RestingPrices == {Dec(1, 0), Dec(2, 0)}

\* add_order(entry) with a fresh id
AddResting ==
    /\ last = NoCall
    /\ next_id <= MaxResting
    /\ \E side \in Sides, price \in RestingPrices, original \in Amounts, remaining \in Amounts :
          /\ DecLe(remaining, original)
          /\ LET entry == OrderEntry(next_id, price, original, remaining, side)
             IN  /\ SetBook(add_order(CurrentBook, entry))
                 /\ last' = Call("add", CurrentBook, next_id, side, remaining, Some(price),
                                 0, <<>>, DecZero, Some(entry), NoSnap)
    /\ next_id' = next_id + 1
    /\ UNCHANGED cancelled
    /\ UNCHANGED concvars
    /\ UNCHANGED engvars

\* cancel_order(order_id), for any of the ids
CancelResting ==
    /\ last = NoCall
    /\ \E order_id \in RestingIds :
          LET r == cancel_order(CurrentBook, order_id)
          IN  /\ SetBook(r.book)
              /\ last' = Call("cancel", CurrentBook, order_id, Buy, DecZero, None,
                              0, <<>>, DecZero, r.entry, NoSnap)
              /\ cancelled' = IF IsSome(r.entry) THEN cancelled \cup {order_id} ELSE cancelled
    /\ UNCHANGED next_id
    /\ UNCHANGED concvars
    /\ UNCHANGED engvars

\* match_order of a market order of 1, which fills the front order of the
\* best level in part or completely
MatchResting ==
    /\ last = NoCall
    /\ \E side \in Sides :
          LET r == match_order(CurrentBook, MaxResting + 1, side, Dec(1, 0), None)
          IN  /\ SetBook(r.book)
              /\ last' = Call("match", CurrentBook, MaxResting + 1, side, Dec(1, 0), None,
                              0, r.trades, r.amount, None, NoSnap)
    /\ UNCHANGED <<next_id, cancelled>>
    /\ UNCHANGED concvars
    /\ UNCHANGED engvars

NextCancel == AddResting \/ CancelResting \/ MatchResting \/ Return

SpecCancel == Init /\ [][NextCancel]_vars

----------------------------------------------------------------------------
(* C34: cancel touches only its target.  cancel_order(id) changes nothing
   but the cancelled entry: every queue afterwards is the queue before
   without the entry of that id (the other orders keep their level, their
   remaining_amount and their order within the level), the other side, the
   other ids of the index and the last trade price are as before, and the
   returned entry is the resident entry with its current remaining_amount. *)

\* the queue without the entries of the id
RECURSIVE Without(_, _)
Without(queue, id) ==
    IF queue = <<>> THEN <<>>
    ELSE IF Head(queue).id = id THEN Without(Tail(queue), id)
    ELSE <<Head(queue)>> \o Without(Tail(queue), id)

\* the side map afterwards holds what the side map before held, less the id
SideLess(before, after, id) ==
    /\ DOMAIN after \subseteq DOMAIN before
    /\ \A l \in DOMAIN before :
          Without(before[l], id) = IF l \in DOMAIN after THEN after[l] ELSE <<>>

C34_CancelTouchesTarget ==
    IsCancel =>
       /\ SideLess(last.pre.bids, bids, last.id)
       /\ SideLess(last.pre.asks, asks, last.id)
       /\ \A id \in DOMAIN last.pre.order_index \ {last.id} :
             id \in DOMAIN order_index /\ order_index[id] = last.pre.order_index[id]
       /\ DOMAIN order_index \subseteq DOMAIN last.pre.order_index
       /\ last_trade_price = last.pre.last_trade_price
       /\ IsSome(last.entry) =>
             /\ \E r \in PreHolders(last.id) : r.entry = Unwrap(last.entry)
             /\ bids = last.pre.bids \/ asks = last.pre.asks

\* three orders stood at one level, the front one filled in part by a
\* match; the one in the middle, itself with 1 of 2 remaining, is cancelled:
\* the first and the third stay at the level, in that order, with their
\* amounts, and the entry returned carries the 1 that remained
C34_Witness ==
    /\ IsCancel /\ IsSome(last.entry)
    /\ DecLt(Unwrap(last.entry).remaining_amount, Unwrap(last.entry).original_amount)
    /\ \E m \in {last.pre.bids, last.pre.asks}, n \in {bids, asks} : \E l \in DOMAIN m :
          /\ Len(m[l]) = 3
          /\ m[l][2].id = last.id
          /\ m[l][2] = Unwrap(last.entry)
          /\ DecLt(m[l][1].remaining_amount, m[l][1].original_amount)
          /\ m[l][1].id < m[l][3].id
          /\ l \in DOMAIN n
          /\ n[l] = <<m[l][1], m[l][3]>>

----------------------------------------------------------------------------
(* snapshot concurrent with submit_order and cancel_order calls (SpecSnap).
   snapshot reads the bids under the bid side's read lock, releases it, and
   then reads the asks under the ask side's read lock (orderbook.rs
   325-354); a read lock waits for the side's writer.  A thread that has
   finished a call makes its next one. *)

\* snapshot, lines 329-336: the bid rows
SnapBids(t) ==
    /\ th[t].pc = "idle"
    /\ lock[Buy] = 0
    /\ \E depth \in 1 .. MaxDepth :
          views' = [views EXCEPT ![t] =
                       [depth |-> depth, bids |-> Tops(bids, asks, depth).bids,
                        asks |-> <<>>, seen |-> {Tops(bids, asks, depth)}]]
    /\ th' = [th EXCEPT ![t] = [IdleThread EXCEPT !.op = "snapshot", !.pc = "p_asks"]]
    /\ UNCHANGED <<bids, asks, order_index, order_count, last_trade_price, next_id,
                   seqvars, lock, book_taker, idx_taker>>
    /\ UNCHANGED engvars

\* snapshot, lines 338-345: the ask rows, and the return
SnapAsks(t) ==
    /\ th[t].op = "snapshot" /\ th[t].pc = "p_asks"
    /\ lock[Sell] = 0
    /\ views' = [views EXCEPT ![t].asks = Tops(bids, asks, views[t].depth).asks]
    /\ th' = [th EXCEPT ![t].pc = "done"]
    /\ UNCHANGED <<bids, asks, order_index, order_count, last_trade_price, next_id,
                   seqvars, lock, book_taker, idx_taker>>
    /\ UNCHANGED engvars

\* the caller is ready for its next call
NextCall(t) ==
    /\ th[t].pc = "done"
    /\ th' = [th EXCEPT ![t] = IdleThread]
    /\ views' = [views EXCEPT ![t] = NoView]
    /\ UNCHANGED <<bids, asks, order_index, order_count, last_trade_price, next_id,
                   seqvars, lock, book_taker, idx_taker>>
    /\ UNCHANGED engvars

SnapStep(t) ==
    \/ SubmitStep(t)
    \/ CancelIndex(t) \/ CancelQueue(t) \/ CancelCount(t)
    \/ SnapBids(t) \/ SnapAsks(t) \/ NextCall(t)

NextSnap == \E t \in Threads : SnapStep(t)

SpecSnap == Init /\ [][NextSnap]_vars

----------------------------------------------------------------------------
(* C35: a snapshot is a view of one book state.  The bids and the asks
   returned by one snapshot(depth) call made while submit_order and
   cancel_order calls run are the top levels that both sides of the book
   had together at some moment of the call. *)
SnapshotReturned(t) == th[t].op = "snapshot" /\ th[t].pc = "done"

C35_SnapshotOneState ==
    \A t \in Threads :
       SnapshotReturned(t) =>
          [bids |-> views[t].bids, asks |-> views[t].asks] \in views[t].seen

----------------------------------------------------------------------------
(* C36: the margin of an unfilled terminated order is released.  When the
   create_order request of an order has ended and the order was rejected
   (a market order that found no liquidity: nothing filled, nothing
   resting), the margin frozen for the order has been moved back from
   frozen to available. *)

\* no create_order request of the order is in flight
CreateEnded(id) == \A i \in 1 .. Len(req) : ~(req[i].op = "create" /\ req[i].id = id)

C36_UnfilledMarginReleased ==
    \A id \in DOMAIN db :
       (CreateEnded(id) /\ db[id].status = "rejected") =>
          /\ balances.ledger[id].times >= 1
          /\ DecEq(balances.ledger[id].returned, balances.ledger[id].frozen)

----------------------------------------------------------------------------
(* C37: margin is released at most once per cancelled order.  In every
   interleaving of cancel requests, create requests and fills, the margin
   of one order is moved from frozen to available by at most one cancel
   request, and only by a request whose engine call removed the order from
   the book. *)
C37_ReleasedAtMostOnce ==
    \A id \in DOMAIN balances.ledger :
       /\ balances.ledger[id].times <= 1
       /\ balances.ledger[id].blind = 0

----------------------------------------------------------------------------
(* persist_trade called again for a TradeEvent it has persisted (SpecReplay):
   the orchestrator's calls and worker, and a caller that passes an event
   whose trade the trades table holds once more *)

\* the events for which persist_trade has returned Ok and which no caller
\* has passed again
Replayable == {worker.persisted[k] : k \in DOMAIN worker.persisted} \ worker.replayed

\* persist_trade(&pool, &trade) with a trade for which persist_trade has
\* returned Ok (each event is passed again at most once, one call at a
\* time): the next awaited statement of that call completes
PersistAgain ==
    /\ \E event \in (IF worker.again = None THEN Replayable ELSE {Unwrap(worker.again)}),
          ok \in BOOLEAN :
          \E r \in {persist_trade(worker, worker.recall, db, trade_tx[event], event, ok)} :
             worker' = [r.w EXCEPT
                           !.replayed = @ \cup {event},
                           !.again = IF Returned(r.c) THEN None ELSE Some(event),
                           !.recall = IF Returned(r.c) THEN NewCall ELSE r.c]
    /\ UNCHANGED <<bids, asks, order_index, order_count, last_trade_price, next_id>>
    /\ UNCHANGED <<ecall, trade_tx, book_tx, db, req, conv, exec, engine_filled>>
    /\ UNCHANGED <<seqvars, concvars, balances, limiter, flow>>

\* the events of a set in the order of the trade channel
RECURSIVE Batch(_)
Batch(events) ==
    IF events = {} THEN <<>>
    ELSE LET first == CHOOSE e \in events : \A f \in events : e <= f
         IN  <<first>> \o Batch(events \ {first})

\* batch_persist_trades, the statements of its transaction for the trades
\* of the slice: INSERT INTO trades ... ON CONFLICT DO NOTHING and one
\* referral_earnings row for each party that has a referrer; no position
\* is updated
RECURSIVE batch_persist_trades(_, _)
batch_persist_trades(w, events) ==
    IF events = <<>> THEN w
    ELSE batch_persist_trades(
             [w EXCEPT !.trades = @ \cup {events[1]},
                       !.earnings = @ \o (IF "maker" \in Referred
                                          THEN <<Earning(events[1], "maker")>> ELSE <<>>)
                                      \o (IF "taker" \in Referred
                                          THEN <<Earning(events[1], "taker")>> ELSE <<>>)],
             Tail(events))

\* batch_persist_trades(&pool, &trades) with trades for which persist_trade
\* has returned Ok: the transaction commits, or one of its statements gives
\* Err and nothing is written
BatchPersistAgain ==
    /\ worker.again = None
    /\ \E events \in SUBSET Replayable, ok \in BOOLEAN :
          /\ events # {}
          /\ worker' = [(IF ok THEN batch_persist_trades(worker, Batch(events)) ELSE worker)
                           EXCEPT !.replayed = @ \cup events]
    /\ UNCHANGED <<bids, asks, order_index, order_count, last_trade_price, next_id>>
    /\ UNCHANGED <<ecall, trade_tx, book_tx, db, req, conv, exec, engine_filled>>
    /\ UNCHANGED <<seqvars, concvars, balances, limiter, flow>>

NextReplay ==
    ProcessOrder \/ Publish \/ ReturnE \/ WorkerRecv \/ WorkerPersist \/ TaskDone
    \/ PersistAgain \/ BatchPersistAgain

SpecReplay == Init /\ [][NextReplay]_vars

----------------------------------------------------------------------------
(* C38: replaying a trade is idempotent.  Passing a TradeEvent that was
   already persisted to persist_trade again leaves the durable state as it
   was: no second trades row, no second position increase and no second
   referral_earnings entry for that trade id. *)
Replays ==
    \/ worker'.replayed # worker.replayed
    \/ worker'.again # worker.again
    \/ worker'.recall # worker.recall

C38_ReplayIdempotent ==
    [][Replays =>
          /\ worker'.trades = worker.trades
          /\ worker'.positions = worker.positions
          /\ worker'.earnings = worker.earnings]_vars

----------------------------------------------------------------------------
(* LegacyMatchingEngine (matching/mod.rs), SpecLegacy: the wrapper with an
   engine of its own, called by concurrent callers with orders whose rows
   the orders table holds; it writes the trades and the orders table
   itself.  A call of the engine is one step and each awaited database
   statement or transaction another; req holds the calls that have not
   returned, ecall the last call of the engine and flow.arrived the number
   of calls made.  subscribe_trades,
   subscribe_orderbook, init_orderbook and get_orderbook write nothing. *)

\* the row of an order that is passed to LegacyMatchingEngine::submit_order
LegacyRow(o) ==
    [status |-> "pending", amount |-> o.amount, filled_amount |-> DecZero,
     price |-> o.price, leverage |-> 1, side |-> o.side, order_type |-> o.order_type]

\* the orders tables the calls start with: one row for each order id
LegacyTables == [SubmitIds -> {LegacyRow(o) : o \in FlowOrders}]

InitLegacy == conv = NoConv /\ \E rows \in LegacyTables : InitRows(rows)

\* UPDATE orders SET filled_amount = filled_amount + $1, status = CASE ..
\* WHERE id = $2 for the taker, with the sum of the amounts of the trades
UpdateTaker(rows, order_id, trades) ==
    UpdateMaker(rows, [maker_order_id |-> order_id,
                       amount |-> SumTrades(trades, AllTrades(trades))])

\* LegacyMatchingEngine::persist_trades, the statements of its transaction
\* on the orders table: the UPDATE of the maker of each trade, then the
\* UPDATE of the taker
persist_trades(rows, order_id, trades) ==
    UpdateTaker(UpdateMakers(rows, trades), order_id, trades)

\* LegacyMatchingEngine::submit_order, up to the return of the engine's
\* submit_order (the matching and its broadcasts)
LegacySubmit ==
    /\ Len(req) < NThreads
    /\ flow.arrived < MaxArrivals
    /\ next_id <= MaxSubmits
    /\ \E symbol \in SymbolInputs :
          DoSubmit(symbol, db[next_id].side, db[next_id].order_type,
                   db[next_id].amount, db[next_id].price)
    /\ req' = Append(req, Unwrap(ecall'))
    /\ flow' = [flow EXCEPT !.arrived = @ + 1]
    /\ UNCHANGED <<worker, db, conv>>
    /\ UNCHANGED <<seqvars, concvars, balances, limiter>>

\* the rest of LegacyMatchingEngine::submit_order: an Err of the engine is
\* returned; else persist_trades, which writes nothing for a result without
\* trades and else commits its transaction (the trades rows with ON CONFLICT
\* (id) DO NOTHING and the UPDATEs of the orders) or gives Err with nothing
\* written; the call returns
LegacyPersist ==
    /\ \E i \in 1 .. Len(req), ok \in BOOLEAN :
          /\ req[i].op = "submit"
          /\ IF req[i].res.ok /\ Unwrap(req[i].res.value).trades # <<>> /\ ok
             THEN /\ db' = persist_trades(db, req[i].id, Unwrap(req[i].res.value).trades)
                  /\ worker' = [worker EXCEPT
                                   !.trades = @ \cup (Len(req[i].pre_tx) + 1 ..
                                                      Len(req[i].pre_tx)
                                                      + Len(Unwrap(req[i].res.value).trades))]
             ELSE UNCHANGED <<db, worker>>
          /\ req' = DropReq(i)
    /\ UNCHANGED <<bids, asks, order_index, order_count, last_trade_price, next_id>>
    /\ UNCHANGED <<ecall, trade_tx, book_tx, conv, exec, engine_filled>>
    /\ UNCHANGED <<seqvars, concvars, balances, limiter, flow>>

\* LegacyMatchingEngine::cancel_order, up to the return of the engine's
\* cancel_order
LegacyCancel ==
    /\ Len(req) < NThreads
    /\ flow.arrived < MaxArrivals
    /\ \E symbol \in SymbolInputs, order_id \in SubmitIds :
          DoCancel(symbol, order_id, FALSE)
    /\ req' = Append(req, Unwrap(ecall'))
    /\ flow' = [flow EXCEPT !.arrived = @ + 1]
    /\ UNCHANGED <<next_id, trade_tx, exec, engine_filled, db, conv>>
    /\ UNCHANGED <<seqvars, concvars, balances, limiter>>

\* the rest of LegacyMatchingEngine::cancel_order: if the engine removed
\* the order, UPDATE orders SET status = 'cancelled' WHERE id = $1
\* completes, with Ok or with Err; the call returns
LegacyUpdate ==
    /\ \E i \in 1 .. Len(req), ok \in BOOLEAN :
          /\ req[i].op = "cancel"
          /\ db' = IF req[i].res.ok /\ Unwrap(req[i].res.value) /\ ok
                   THEN update_order_status(db, req[i].id, "cancelled")
                   ELSE db
          /\ req' = DropReq(i)
    /\ UNCHANGED <<bids, asks, order_index, order_count, last_trade_price, next_id>>
    /\ UNCHANGED <<ecall, trade_tx, book_tx, worker, conv, exec, engine_filled>>
    /\ UNCHANGED <<seqvars, concvars, balances, limiter, flow>>

\* the TradeEvents the callers of broadcast_trade pass: a trade of 1 at
\* price 1 between the first two orders, the taker buying
LegacyEvents ==
    {TradeEvent("BTCUSDT", Buy,
                TradeExecution(OrderEntry(1, OrchPrice, Dec(1, 0), Dec(1, 0), Sell),
                               2, Dec(1, 0)))}

\* LegacyMatchingEngine::broadcast_trade: the TradeEvent of the caller is
\* sent on the trade channel of the engine
LegacyBroadcast ==
    /\ flow.arrived < MaxArrivals
    /\ \E event \in LegacyEvents : trade_tx' = Append(trade_tx, event)
    /\ flow' = [flow EXCEPT !.arrived = @ + 1]
    /\ UNCHANGED <<bids, asks, order_index, order_count, last_trade_price, next_id>>
    /\ UNCHANGED <<ecall, book_tx, worker, db, req, conv, exec, engine_filled>>
    /\ UNCHANGED <<seqvars, concvars, balances, limiter>>

NextLegacy ==
    LegacySubmit \/ LegacyPersist \/ LegacyCancel \/ LegacyUpdate \/ LegacyBroadcast

SpecLegacy == InitLegacy /\ [][NextLegacy]_vars

----------------------------------------------------------------------------
(* RateLimiter (auth/rate_limit.rs), SpecLimit: check_rate_limit calls of
   the clients while the clock advances second by second.  The cleanup
   task of RateLimiter::new works on a clone of the map and changes
   nothing the calls read. *)

Clients == {"a", "b"}

\* entries.entry(client_id).or_insert_with(|| RateLimitEntry { request_count: 0, window_start: now })
EntryOf(entries, client_id, now) ==
    IF client_id \in DOMAIN entries THEN entries[client_id]
    ELSE [request_count |-> 0, window_start |-> now]

\* the entry after the reset of an expired window and the increment
Counted(entry, now) ==
    IF now - entry.window_start >= WindowSecs
    THEN [request_count |-> 1, window_start |-> now]
    ELSE [request_count |-> entry.request_count + 1, window_start |-> entry.window_start]

\* RateLimiter::check_rate_limit: the limiter after the call; the answer is
\* noted in granted as ok
check_rate_limit(l, client_id) ==
    [entries |-> MapPut(l.entries, client_id,
                        Counted(EntryOf(l.entries, client_id, l.now), l.now)),
     now     |-> l.now,
     granted |-> Append(l.granted,
                        [client |-> client_id, time |-> l.now,
                         ok |-> Counted(EntryOf(l.entries, client_id, l.now),
                                        l.now).request_count <= MaxRequests])]

CheckRateLimit ==
    /\ Len(limiter.granted) < MaxCalls
    /\ \E client_id \in Clients : limiter' = check_rate_limit(limiter, client_id)
    /\ UNCHANGED <<bids, asks, order_index, order_count, last_trade_price, next_id>>
    /\ UNCHANGED <<ecall, trade_tx, book_tx, worker, db, req, conv, exec, engine_filled>>
    /\ UNCHANGED <<seqvars, concvars, balances, flow>>

\* Instant::now() a second later
Tick ==
    /\ limiter.now < MaxTime
    /\ limiter' = [limiter EXCEPT !.now = @ + 1]
    /\ UNCHANGED <<bids, asks, order_index, order_count, last_trade_price, next_id>>
    /\ UNCHANGED <<ecall, trade_tx, book_tx, worker, db, req, conv, exec, engine_filled>>
    /\ UNCHANGED <<seqvars, concvars, balances, flow>>

NextLimit == CheckRateLimit \/ Tick

SpecLimit == Init /\ [][NextLimit]_vars

----------------------------------------------------------------------------
(* C39: sliding-window rate limit.  For every client and every interval of
   window_secs seconds, check_rate_limit answers Ok to at most max_requests
   calls of the client that fall in the interval. *)

\* the calls of the client answered Ok in the window_secs seconds from `from`
OkIn(client_id, from) ==
    {k \in DOMAIN limiter.granted :
        /\ limiter.granted[k].client = client_id
        /\ limiter.granted[k].ok
        /\ limiter.granted[k].time >= from
        /\ limiter.granted[k].time < from + WindowSecs}

C39_SlidingWindow ==
    \A client_id \in Clients, from \in 0 .. MaxTime :
        Cardinality(OkIn(client_id, from)) <= MaxRequests

====
